---- MODULE Spec2Model ----
(***************************************************************************)
(* A model of troika-http: the route table and its matching, the parser    *)
(* callbacks of one connection, and the lifecycle of the request handler   *)
(* that Application.dispatch() starts for it.                              *)
(*                                                                         *)
(* Text is a sequence of one-character strings, bytes are a sequence of    *)
(* integers 0..255.  Python's None is a sentinel of the field's own type   *)
(* (NoTime, NoExc, NoRoute, NoChunk) so that every field keeps one shape.  *)
(***************************************************************************)
EXTENDS Integers, Sequences, FiniteSets, TLC

VARIABLES
    build,      \* what the interpreter and the optional libraries provide
    settings,   \* Application.settings
    routes,     \* Application.routes, the compiled route table
    pc,         \* position of the connection / of the handler's coroutine
    now,        \* time.time()
    request,    \* HTTPRequest
    response,   \* HTTPResponse (request.response)
    transport,  \* the asyncio transport: what was written, close() calls
    route,      \* the RouteMatch handed to the handler
    handler,    \* the RequestHandler instance and what its user code did
    cache,      \* the functools.lru_cache(1) of the negotiation methods
    logs,       \* records of the access logger and of LOGGER.exception
    hist,       \* history: the API calls made and the phases passed
    probe       \* one call of a transcoder or of negotiation: arguments, outcome

vars == <<build, settings, routes, pc, now, request, response, transport,
          route, handler, cache, logs, hist, probe>>

(***************************************************************************)
(* Bounds of the model.                                                    *)
(***************************************************************************)
MaxPathLen == 3     \* longest request path RouteSpec matches
MaxRoutes == 2      \* most author-supplied routes in a RouteSpec table
MaxCalls == 2       \* most handler API calls user code makes in one request
MaxRanges == 2      \* most media ranges in an Accept header TranscodeSpec negotiates
MaxDepth == 2       \* deepest nesting of the values TranscodeSpec transcodes
MaxHeaderLen == 2   \* longest header value CallSpec serialises
MaxResolves == 2    \* most calls of the negotiation methods by one handler in MemoSpec
MaxChunks == 2      \* most body events the parser delivers for one message in ParseSpec

(***************************************************************************)
(* Characters and text.                                                    *)
(***************************************************************************)
NL == "NL"                       \* the newline character
Digits == {"1", "2"}
Chars == {"/", "a", "1", NL}

\* F applied to the value of x, with x evaluated once.
Let(x, F(_)) == CHOOSE out \in {F(v) : v \in {x}} : TRUE

RECURSIVE SeqsUpTo(_, _)
SeqsUpTo(S, n) ==
    IF n = 0 THEN {<<>>}
    ELSE LET shorter == SeqsUpTo(S, n - 1)
         IN  shorter \cup {Append(s, x) : s \in {t \in shorter : Len(t) = n - 1}, x \in S}

(***************************************************************************)
(* Regular expressions, as far as route patterns use them.  A pattern is   *)
(* a sequence of elements: a literal character, ".*", a group "(\d+)" or   *)
(* "(?P<name>\d+)", and "$".                                               *)
(***************************************************************************)
Lit(c) == [t |-> "lit", c |-> c, name |-> ""]
DotStar == [t |-> "dotstar", c |-> "", name |-> ""]
Group == [t |-> "group", c |-> "", name |-> ""]
Named(n) == [t |-> "group", c |-> "", name |-> n]
Eol == [t |-> "eol", c |-> "", name |-> ""]

NoResult == [ok |-> FALSE, end |-> 0, groups |-> <<>>]

\* The characters a repeated element consumes: "." is any character but a
\* newline, "\d" a digit.
Accepts(el, ch) == IF el.t = "dotstar" THEN ch # NL ELSE ch \in Digits

RECURSIVE RunLen(_, _, _)
RunLen(s, si, el) ==
    IF si > Len(s) \/ ~Accepts(el, s[si]) THEN 0 ELSE 1 + RunLen(s, si + 1, el)

\* re's backtracking matcher from position si of s: a greedy element tries
\* its longest run first.  "$" matches at the end of the string and just
\* before a newline that ends the string.
RECURSIVE ReMatchAt(_, _, _, _)
RECURSIVE ReGreedy(_, _, _, _, _, _)
ReMatchAt(pat, pi, s, si) ==
    IF pi > Len(pat) THEN [ok |-> TRUE, end |-> si, groups |-> <<>>]
    ELSE LET el == pat[pi] IN
         CASE el.t = "lit" ->
                IF si <= Len(s) /\ s[si] = el.c
                THEN ReMatchAt(pat, pi + 1, s, si + 1) ELSE NoResult
           [] el.t = "eol" ->
                IF si = Len(s) + 1 \/ (si = Len(s) /\ s[si] = NL)
                THEN ReMatchAt(pat, pi + 1, s, si) ELSE NoResult
           [] el.t = "dotstar" -> ReGreedy(pat, pi, s, si, RunLen(s, si, el), 0)
           [] el.t = "group" -> ReGreedy(pat, pi, s, si, RunLen(s, si, el), 1)
ReGreedy(pat, pi, s, si, k, least) ==
    IF k < least THEN NoResult
    ELSE Let(ReMatchAt(pat, pi + 1, s, si + k), LAMBDA rest :
         IF rest.ok
         THEN IF pat[pi].t = "group"
              THEN [rest EXCEPT !.groups =
                        <<[name |-> pat[pi].name, text |-> SubSeq(s, si, si + k - 1)]>> \o @]
              ELSE rest
         ELSE ReGreedy(pat, pi, s, si, k - 1, least))

\* re.compile(pattern).match(value): anchored at the start of value.
ReMatch(pat, s) == ReMatchAt(pat, 1, s, 1)

\* Match.group(): the whole matched text.
MatchGroup0(res, s) == SubSeq(s, 1, res.end - 1)

\* Match.groupdict(): the named groups.
MatchGroupDict(res) == SelectSeq(res.groups, LAMBDA g : g.name # "")

\* The unnamed groups of a match, in order.
MatchPositional(res) == SelectSeq(res.groups, LAMBDA g : g.name = "")

(***************************************************************************)
(* Routes.                                                                 *)
(***************************************************************************)
EndsWithDollar(pattern) == Len(pattern) > 0 /\ pattern[Len(pattern)] = Eol

\* Route.__init__
Route(pattern, handlerCls, kwargs, name, suppress_logging) ==
    [pattern |-> IF EndsWithDollar(pattern) THEN pattern ELSE Append(pattern, Eol),
     handler |-> handlerCls,
     kwargs |-> kwargs,
     name |-> name,
     suppress_logging |-> suppress_logging]

\* Route.match
RouteMatches(r, path) == ReMatch(r.pattern, path)

\* Application._set_default_settings: the defaults of the settings the
\* model reads.
DefaultContentTypeSetting == [type |-> "text", subtype |-> "html", params |-> "charset=UTF-8"]
SetDefaultSettings(given) ==
    [default_content_type |-> given.default_content_type,
     serve_traceback |-> given.serve_traceback,
     default_handler_class |-> "DefaultHandler",
     default_handler_kwargs |-> "",
     default_handler_name |-> "default",
     default_handler_suppress_logs |-> FALSE]

\* The synthetic trailing route, r'/.*$'.
CatchAllPattern == <<Lit("/"), DotStar, Eol>>

\* An entry of the routes argument: the arguments of Route().
RouteArgs(pattern, handlerCls, kwargs, name, suppress_logging) ==
    [pattern |-> pattern, handler |-> handlerCls, kwargs |-> kwargs,
     name |-> name, suppress_logging |-> suppress_logging]

\* Application._compile_routes: the author's routes in their order, then
\* the default route.
CompileRoutes(author, st) ==
    [i \in 1..Len(author) |->
        Route(author[i].pattern, author[i].handler, author[i].kwargs,
              author[i].name, author[i].suppress_logging)]
    \o <<Route(CatchAllPattern, st.default_handler_class,
                       st.default_handler_kwargs, st.default_handler_name,
                       st.default_handler_suppress_logs)>>

NoRoute == [matched |-> FALSE, handler |-> "", name |-> "",
            pattern |-> <<>>, suppress_logging |-> FALSE, init_kwargs |-> "",
            args |-> <<>>, kwargs |-> <<>>]

\* The positions of the routes of a table whose pattern matches the path.
MatchingRoutes(table, path) == {i \in 1..Len(table) : RouteMatches(table[i], path).ok}

\* A table whose loop answers with the last matching route, not the first.
MatchFromLast(table, i, path) ==
    LET hits == MatchingRoutes(table, path)
        last == CHOOSE k \in hits : \A j \in hits : j <= k
        result == RouteMatches(table[last], path)
    IN  IF hits = {} THEN NoRoute
        ELSE [matched |-> TRUE,
              handler |-> table[last].handler,
              name |-> table[last].name,
              pattern |-> table[last].pattern,
              suppress_logging |-> table[last].suppress_logging,
              init_kwargs |-> table[last].kwargs,
              args |-> MatchGroup0(result, path),
              kwargs |-> MatchGroupDict(result)]

\* route.match: the first route of the table whose pattern matches; no
\* result (None) when the loop ends without one.
RECURSIVE MatchFrom(_, _, _)
MatchFrom(table, i, path) ==
    IF i > Len(table) THEN NoRoute
    ELSE Let(RouteMatches(table[i], path), LAMBDA result :
         IF result.ok
         THEN [matched |-> TRUE,
               handler |-> table[i].handler,
               name |-> table[i].name,
               pattern |-> table[i].pattern,
               suppress_logging |-> table[i].suppress_logging,
               init_kwargs |-> table[i].kwargs,
               args |-> MatchGroup0(result, path),
               kwargs |-> MatchGroupDict(result)]
         ELSE MatchFrom(table, i + 1, path))

match(table, path) == MatchFrom(table, 1, path)

(***************************************************************************)
(* Bytes and text.  Body text is a sequence of code points.                *)
(***************************************************************************)
RECURSIVE Flatten(_)
Flatten(ss) == IF ss = <<>> THEN <<>> ELSE Head(ss) \o Flatten(Tail(ss))

\* str.encode('utf-8') of one code point (below 65536).
Utf8Char(cp) ==
    IF cp < 128 THEN <<cp>>
    ELSE IF cp < 2048 THEN <<192 + (cp \div 64), 128 + (cp % 64)>>
    ELSE <<224 + (cp \div 4096), 128 + ((cp \div 64) % 64), 128 + (cp % 64)>>

\* str.encode('utf-8')
Utf8Encode(text) == Flatten([i \in 1..Len(text) |-> Utf8Char(text[i])])

(***************************************************************************)
(* Integers.  A Python integer of the 64-bit range is a sign and a         *)
(* magnitude of eight bytes, the most significant first.                   *)
(***************************************************************************)
\* bytes.decode('utf-8') of text of code points below 2048.
RECURSIVE Utf8Decode(_)
Utf8Decode(b) ==
    IF b = <<>> THEN <<>>
    ELSE IF b[1] < 128 THEN <<b[1]>> \o Utf8Decode(Tail(b))
    ELSE <<(b[1] - 192) * 64 + (b[2] - 128)>> \o Utf8Decode(Tail(Tail(b)))

Zeros(n) == [i \in 1..n |-> 0]

\* The last n bytes of a magnitude.
Low(mag, n) == SubSeq(mag, Len(mag) - n + 1, Len(mag))

\* The magnitude is below 256^n.
Fits(mag, n) == SubSeq(mag, 1, Len(mag) - n) = Zeros(Len(mag) - n)

\* a <= b for two byte sequences of one length, as numbers.
RECURSIVE LeqBytes(_, _)
LeqBytes(a, b) ==
    \/ a = <<>>
    \/ a[1] < b[1]
    \/ a[1] = b[1] /\ LeqBytes(Tail(a), Tail(b))

\* 256^n / 2 as n bytes: the magnitude of the least n-byte signed integer.
HalfRange(n) == <<128>> \o Zeros(n - 1)

\* The magnitude is at most 256^n / 2.
FitsSigned(mag, n) == Fits(mag, n) /\ LeqBytes(Low(mag, n), HalfRange(n))

\* The bytes plus one, in the same number of bytes.
RECURSIVE Increment(_)
Increment(b) ==
    IF b = <<>> THEN <<>>
    ELSE IF b[Len(b)] = 255 THEN Increment(SubSeq(b, 1, Len(b) - 1)) \o <<0>>
    ELSE SubSeq(b, 1, Len(b) - 1) \o <<b[Len(b)] + 1>>

\* struct.pack of the negative integer of this magnitude: two's complement.
TwosComplement(b) == Increment([i \in 1..Len(b) |-> 255 - b[i]])

\* A magnitude from an integer below 2^31.
MagOf(n) ==
    <<0, 0, 0, 0, (n \div 16777216) % 256, (n \div 65536) % 256, (n \div 256) % 256, n % 256>>

\* The integer of a magnitude below 2^31.
SmallInt(mag) == mag[5] * 16777216 + mag[6] * 65536 + mag[7] * 256 + mag[8]

(***************************************************************************)
(* Values handed to a transcoder: None, booleans, integers, text, bytes,   *)
(* byte arrays, lists, tuples, sets, mappings, and objects of other types. *)
(***************************************************************************)
VNone == [k |-> "none"]
VBool(b) == [k |-> "bool", b |-> b]
VLong(neg, mag) == [k |-> "int", neg |-> neg, mag |-> mag]
VInt(n) == IF n < 0 THEN VLong(TRUE, MagOf(0 - n)) ELSE VLong(FALSE, MagOf(n))
VStr(text) == [k |-> "str", text |-> text]
VBytes(data) == [k |-> "bytes", data |-> data]
VByteArray(data) == [k |-> "bytearray", data |-> data]
VList(items) == [k |-> "list", items |-> items]
VTuple(items) == [k |-> "tuple", items |-> items]
VSet(items) == [k |-> "set", items |-> items]        \* items: in iteration order
VDict(pairs) == [k |-> "dict", pairs |-> pairs]     \* pairs: <<key text, value>>
VObject == [k |-> "object"]                         \* a value of any other type

\* The first failure among the normalized items, or all their values.
NormalizedAll(results) ==
    IF \E i \in 1..Len(results) : ~results[i].ok
    THEN [ok |-> FALSE,
          exc |-> results[CHOOSE i \in 1..Len(results) :
                              ~results[i].ok /\ \A j \in 1..(i - 1) : results[j].ok].exc,
          values |-> <<>>]
    ELSE [ok |-> TRUE, exc |-> "", values |-> [i \in 1..Len(results) |-> results[i].value]]

\* transcoders.normalize.  None, numbers, bytes and text are returned, a
\* bytearray as bytes.  The interpreter's collections module has the
\* Sequence/Set/Mapping aliases only before Python 3.10; without them the
\* isinstance test a list, a tuple, a set, a mapping or a value of no listed
\* type comes to raises AttributeError.  With them a value of no listed type
\* gets the TypeError of the function's last line.
RECURSIVE normalize(_, _)
normalize(value, bld) ==
    CASE value.k \in {"none", "bool", "int", "str", "bytes"} ->
            [ok |-> TRUE, exc |-> "", value |-> value]
      [] value.k = "bytearray" ->
            [ok |-> TRUE, exc |-> "", value |-> VBytes(value.data)]
      [] value.k \in {"list", "tuple", "set"} ->
            IF ~bld.abcAlias THEN [ok |-> FALSE, exc |-> "AttributeError", value |-> value]
            ELSE Let(NormalizedAll([i \in 1..Len(value.items) |-> normalize(value.items[i], bld)]),
                     LAMBDA all :
                        IF all.ok THEN [ok |-> TRUE, exc |-> "", value |-> VList(all.values)]
                        ELSE [ok |-> FALSE, exc |-> all.exc, value |-> value])
      [] value.k = "dict" ->
            IF ~bld.abcAlias THEN [ok |-> FALSE, exc |-> "AttributeError", value |-> value]
            ELSE Let(NormalizedAll([i \in 1..Len(value.pairs) |-> normalize(value.pairs[i][2], bld)]),
                     LAMBDA all :
                        IF all.ok
                        THEN [ok |-> TRUE, exc |-> "",
                              value |-> VDict([i \in 1..Len(all.values) |->
                                                  <<value.pairs[i][1], all.values[i]>>])]
                        ELSE [ok |-> FALSE, exc |-> all.exc, value |-> value])
      [] OTHER ->
            IF ~bld.abcAlias THEN [ok |-> FALSE, exc |-> "AttributeError", value |-> value]
            ELSE [ok |-> FALSE, exc |-> "TypeError", value |-> value]

(***************************************************************************)
(* MessagePack, as umsgpack packs and unpacks it.                          *)
(***************************************************************************)
\* Packing every integer in the widest form: eight bytes after 0xCF for a
\* non-negative integer, after 0xD3 for a negative one.
PackIntegerWide(neg, mag) ==
    IF neg
    THEN <<211>> \o TwosComplement(mag)
    ELSE <<207>> \o mag

\* umsgpack's packing of an integer between -2^63 and 2^64 - 1: 0..127 as
\* the byte itself, -32..-1 as the byte of its two's complement; above
\* that the marker of the smallest unsigned width that holds a non-negative
\* integer, of the smallest signed width that holds a negative one, and
\* the integer in that many big-endian bytes.
PackInteger(neg, mag) ==
    IF neg
    THEN IF Fits(mag, 1) /\ mag[8] <= 32 THEN TwosComplement(Low(mag, 1))
         ELSE IF FitsSigned(mag, 1) THEN <<208>> \o TwosComplement(Low(mag, 1))
         ELSE IF FitsSigned(mag, 2) THEN <<209>> \o TwosComplement(Low(mag, 2))
         ELSE IF FitsSigned(mag, 4) THEN <<210>> \o TwosComplement(Low(mag, 4))
         ELSE <<211>> \o TwosComplement(mag)
    ELSE IF Fits(mag, 1) /\ mag[8] < 128 THEN <<mag[8]>>
         ELSE IF Fits(mag, 1) THEN <<204>> \o Low(mag, 1)
         ELSE IF Fits(mag, 2) THEN <<205>> \o Low(mag, 2)
         ELSE IF Fits(mag, 4) THEN <<206>> \o Low(mag, 4)
         ELSE <<207>> \o mag

\* umsgpack.packb of a normalized value: the smallest MessagePack form of
\* each integer, string, byte string, array and map the model builds.
RECURSIVE MsgpackPack(_)
MsgpackPack(v) ==
    CASE v.k = "none" -> <<192>>
      [] v.k = "bool" -> IF v.b THEN <<195>> ELSE <<194>>
      [] v.k = "int" -> PackInteger(v.neg, v.mag)
      [] v.k = "str" ->
            Let(Utf8Encode(v.text), LAMBDA b :
                IF Len(b) < 32 THEN <<160 + Len(b)>> \o b ELSE <<217, Len(b)>> \o b)
      [] v.k = "bytes" -> <<196, Len(v.data)>> \o v.data
      [] v.k = "list" ->
            <<144 + Len(v.items)>> \o
                Flatten([i \in 1..Len(v.items) |-> MsgpackPack(v.items[i])])
      [] v.k = "dict" ->
            <<128 + Len(v.pairs)>> \o
                Flatten([i \in 1..Len(v.pairs) |->
                            MsgpackPack(VStr(v.pairs[i][1])) \o MsgpackPack(v.pairs[i][2])])

\* What unpacking gives: a value and the bytes after it, or a failure.
Unpacked(v, rest) == [ok |-> TRUE, value |-> v, rest |-> rest]
UnpackFailed == [ok |-> FALSE, value |-> VNone, rest |-> <<>>]

\* The integer of n unsigned big-endian bytes, and of n signed ones.
UnsignedOf(b) == VLong(FALSE, Zeros(8 - Len(b)) \o b)
SignedOf(b) ==
    IF b[1] >= 128 THEN VLong(TRUE, Zeros(8 - Len(b)) \o TwosComplement(b))
    ELSE UnsignedOf(b)

\* umsgpack's unpacking of the value at the head of the bytes; n items or
\* n key-value pairs after the head of an array or a map.
RECURSIVE UnpackValue(_), UnpackItems(_, _), UnpackPairs(_, _)
UnpackValue(b) ==
    IF b = <<>> THEN UnpackFailed
    ELSE LET h == b[1]
             t == Tail(b)
             Sized(n, F(_)) ==
                IF Len(t) < n THEN UnpackFailed
                ELSE Unpacked(F(SubSeq(t, 1, n)), SubSeq(t, n + 1, Len(t)))
             Counted(n, F(_)) ==
                IF t = <<>> \/ Len(t) < 1 + t[1] THEN UnpackFailed
                ELSE Unpacked(F(SubSeq(t, 2, 1 + t[1])), SubSeq(t, 2 + t[1], Len(t)))
         IN  CASE h < 128 -> Unpacked(UnsignedOf(<<h>>), t)
               [] h \in 128..143 ->
                     Let(UnpackPairs(t, h - 128), LAMBDA r :
                         IF r.ok THEN Unpacked(VDict(r.value), r.rest) ELSE UnpackFailed)
               [] h \in 144..159 ->
                     Let(UnpackItems(t, h - 144), LAMBDA r :
                         IF r.ok THEN Unpacked(VList(r.value), r.rest) ELSE UnpackFailed)
               [] h \in 160..191 -> Sized(h - 160, LAMBDA x : VStr(Utf8Decode(x)))
               [] h = 192 -> Unpacked(VNone, t)
               [] h = 194 -> Unpacked(VBool(FALSE), t)
               [] h = 195 -> Unpacked(VBool(TRUE), t)
               [] h = 196 -> Counted(1, LAMBDA x : VBytes(x))
               [] h = 204 -> Sized(1, LAMBDA x : UnsignedOf(x))
               [] h = 205 -> Sized(2, LAMBDA x : UnsignedOf(x))
               [] h = 206 -> Sized(4, LAMBDA x : UnsignedOf(x))
               [] h = 207 -> Sized(8, LAMBDA x : UnsignedOf(x))
               [] h = 208 -> Sized(1, LAMBDA x : SignedOf(x))
               [] h = 209 -> Sized(2, LAMBDA x : SignedOf(x))
               [] h = 210 -> Sized(4, LAMBDA x : SignedOf(x))
               [] h = 211 -> Sized(8, LAMBDA x : SignedOf(x))
               [] h = 217 -> Counted(1, LAMBDA x : VStr(Utf8Decode(x)))
               [] h >= 224 -> Unpacked(SignedOf(<<h>>), t)
               [] OTHER -> UnpackFailed

UnpackItems(b, n) ==
    IF n = 0 THEN [ok |-> TRUE, value |-> <<>>, rest |-> b]
    ELSE Let(UnpackValue(b), LAMBDA first :
            IF ~first.ok THEN [ok |-> FALSE, value |-> <<>>, rest |-> <<>>]
            ELSE Let(UnpackItems(first.rest, n - 1), LAMBDA others :
                    IF ~others.ok THEN others
                    ELSE [ok |-> TRUE, value |-> <<first.value>> \o others.value,
                          rest |-> others.rest]))

UnpackPairs(b, n) ==
    IF n = 0 THEN [ok |-> TRUE, value |-> <<>>, rest |-> b]
    ELSE Let(UnpackItems(b, 2), LAMBDA pair :
            IF ~pair.ok \/ pair.value[1].k # "str"
            THEN [ok |-> FALSE, value |-> <<>>, rest |-> <<>>]
            ELSE Let(UnpackPairs(pair.rest, n - 1), LAMBDA others :
                    IF ~others.ok THEN others
                    ELSE [ok |-> TRUE,
                          value |-> <<<<pair.value[1].text, pair.value[2]>>>> \o others.value,
                          rest |-> others.rest]))

\* umsgpack.unpackb
MsgpackUnpack(b) ==
    Let(UnpackValue(b), LAMBDA r :
        IF r.ok THEN [ok |-> TRUE, exc |-> "", value |-> r.value]
        ELSE [ok |-> FALSE, exc |-> "UnpackException", value |-> VNone])

(***************************************************************************)
(* JSON, as json.dumps writes it with the separators "," and ":" and       *)
(* JSON.dump_object as its default.                                        *)
(***************************************************************************)
\* The bytes divided by ten: the quotient in as many bytes, the remainder.
RECURSIVE DivTen(_, _)
DivTen(b, carry) ==
    IF b = <<>> THEN [q |-> <<>>, r |-> carry]
    ELSE Let(DivTen(Tail(b), (carry * 256 + b[1]) % 10), LAMBDA rest :
            [q |-> <<(carry * 256 + b[1]) \div 10>> \o rest.q, r |-> rest.r])

\* The decimal digits of a magnitude above 0.
RECURSIVE Decimal(_)
Decimal(mag) ==
    IF mag = Zeros(Len(mag)) THEN <<>>
    ELSE Let(DivTen(mag, 0), LAMBDA d : Decimal(d.q) \o <<48 + d.r>>)

\* str(n)
DecimalText(neg, mag) ==
    IF mag = Zeros(Len(mag)) THEN <<48>>
    ELSE (IF neg THEN <<45>> ELSE <<>>) \o Decimal(mag)

\* One digit of the base64 alphabet.
Base64Char(i) ==
    IF i < 26 THEN 65 + i
    ELSE IF i < 52 THEN 97 + (i - 26)
    ELSE IF i < 62 THEN 48 + (i - 52)
    ELSE IF i = 62 THEN 43
    ELSE 47

\* base64.b64encode(data).decode('ASCII')
RECURSIVE Base64(_)
Base64(b) ==
    IF b = <<>> THEN <<>>
    ELSE IF Len(b) = 1
    THEN <<Base64Char(b[1] \div 4), Base64Char((b[1] % 4) * 16), 61, 61>>
    ELSE IF Len(b) = 2
    THEN <<Base64Char(b[1] \div 4), Base64Char((b[1] % 4) * 16 + b[2] \div 16),
           Base64Char((b[2] % 16) * 4), 61>>
    ELSE <<Base64Char(b[1] \div 4), Base64Char((b[1] % 4) * 16 + b[2] \div 16),
           Base64Char((b[2] % 16) * 4 + b[3] \div 64), Base64Char(b[3] % 64)>>
         \o Base64(SubSeq(b, 4, Len(b)))

\* One hexadecimal digit, and the \uXXXX escape of a code point.
HexDigit(i) == IF i < 10 THEN 48 + i ELSE 97 + (i - 10)
UnicodeEscape(cp) ==
    <<92, 117, HexDigit(cp \div 4096), HexDigit((cp \div 256) % 16),
      HexDigit((cp \div 16) % 16), HexDigit(cp % 16)>>

\* A JSON string: quotes and backslashes escaped, and every code point
\* outside printable ASCII written as \uXXXX.
JsonString(text) ==
    <<34>> \o Flatten([i \in 1..Len(text) |->
                          IF text[i] \in {34, 92} THEN <<92, text[i]>>
                          ELSE IF text[i] < 32 \/ text[i] > 126 THEN UnicodeEscape(text[i])
                          ELSE <<text[i]>>])
          \o <<34>>

\* The items joined by commas.
RECURSIVE CommaJoin(_)
CommaJoin(texts) ==
    IF texts = <<>> THEN <<>>
    ELSE IF Len(texts) = 1 THEN texts[1]
    ELSE texts[1] \o <<44>> \o CommaJoin(Tail(texts))

\* json.dumps(value, default=dump_object, separators=(',', ':')) of a
\* normalized value.
RECURSIVE JsonDumps(_)
JsonDumps(v) ==
    CASE v.k = "none" -> <<110, 117, 108, 108>>
      [] v.k = "bool" -> IF v.b THEN <<116, 114, 117, 101>> ELSE <<102, 97, 108, 115, 101>>
      [] v.k = "int" -> DecimalText(v.neg, v.mag)
      [] v.k = "str" -> JsonString(v.text)
      [] v.k = "bytes" -> JsonString(Base64(v.data))
      [] v.k = "list" ->
            <<91>> \o CommaJoin([i \in 1..Len(v.items) |-> JsonDumps(v.items[i])]) \o <<93>>
      [] v.k = "dict" ->
            <<123>> \o CommaJoin([i \in 1..Len(v.pairs) |->
                                    JsonString(v.pairs[i][1]) \o <<58>> \o JsonDumps(v.pairs[i][2])])
                    \o <<125>>

(***************************************************************************)
(* Content types and the transcoder registry.                              *)
(***************************************************************************)
Mime(t, st) == [type |-> t, subtype |-> st, params |-> ""]
MimeCharset(t, st, cs) == [type |-> t, subtype |-> st, params |-> cs]

NoTranscoder == [cls |-> "None", mime_type |-> Mime("", "")]
Transcoder(cls, mime) == [cls |-> cls, mime_type |-> mime]

\* The rows of transcoders.default with the JSON row moved to the front.
DefaultRowsJsonFirst(bld) ==
    <<[mime |-> Mime("application", "json"),
       tc |-> Transcoder("JSON", Mime("application", "json"))],
      [mime |-> Mime("text", "html"), tc |-> Transcoder("Text", Mime("text", "plain"))],
      [mime |-> Mime("text", "plain"), tc |-> Transcoder("Text", Mime("text", "plain"))],
      [mime |-> Mime("application", "octet-stream"),
       tc |-> Transcoder("Binary", Mime("application", "octet-stream"))],
      [mime |-> Mime("application", "x-www-form-urlencoded"),
       tc |-> Transcoder("FormURLEncoded", Mime("application", "x-www-form-urlencoded"))]>>
    \o (IF bld.umsgpack
        THEN <<[mime |-> Mime("application", "msgpack"),
                tc |-> Transcoder("MessagePack", Mime("application", "msgpack"))]>>
        ELSE <<>>)
    \o (IF bld.yaml
        THEN <<[mime |-> Mime("text", "x-yaml"),
                tc |-> Transcoder("YAML", Mime("text", "x-yaml"))]>>
        ELSE <<>>)

\* transcoders.default: the (content type, transcoder) rows in registration
\* order; msgpack and yaml only when their library was importable.  Text()
\* keeps its own MIME type text/plain also under the text/html row.
DefaultRows(bld) ==
    <<[mime |-> Mime("text", "html"), tc |-> Transcoder("Text", Mime("text", "plain"))],
      [mime |-> Mime("text", "plain"), tc |-> Transcoder("Text", Mime("text", "plain"))],
      [mime |-> Mime("application", "octet-stream"),
       tc |-> Transcoder("Binary", Mime("application", "octet-stream"))],
      [mime |-> Mime("application", "x-www-form-urlencoded"),
       tc |-> Transcoder("FormURLEncoded", Mime("application", "x-www-form-urlencoded"))],
      [mime |-> Mime("application", "json"),
       tc |-> Transcoder("JSON", Mime("application", "json"))]>>
    \o (IF bld.umsgpack
        THEN <<[mime |-> Mime("application", "msgpack"),
                tc |-> Transcoder("MessagePack", Mime("application", "msgpack"))]>>
        ELSE <<>>)
    \o (IF bld.yaml
        THEN <<[mime |-> Mime("text", "x-yaml"),
                tc |-> Transcoder("YAML", Mime("text", "x-yaml"))]>>
        ELSE <<>>)

\* application.transcoders[0]: the parsed content types, in order.
RegistryList(bld) == Let(DefaultRows(bld), LAMBDA rows : [i \in 1..Len(rows) |-> rows[i].mime])

\* application.transcoders[1].get(content_type): the row stored last under
\* the key; None when the string is no key of the map.
RegistryGet(bld, ctype) ==
    Let(DefaultRows(bld), LAMBDA rows :
        Let({i \in 1..Len(rows) : rows[i].mime = ctype}, LAMBDA hits :
            IF hits = {} THEN NoTranscoder
            ELSE rows[CHOOSE i \in hits : \A j \in hits : j <= i].tc))

\* application.transcoders[1], dict(transcoders): a transcoder under every
\* content type of the rows.
RegistryMap(bld) ==
    Let(DefaultRows(bld), LAMBDA rows :
        [m \in {rows[i].mime : i \in 1..Len(rows)} |-> RegistryGet(bld, m)])

\* Application.transcoders as __init__ leaves it: the tuple default()
\* returned, the list of content types and the map.
ApplicationTranscoders(bld) ==
    [kind |-> "tuple", list |-> RegistryList(bld), map |-> RegistryMap(bld)]

\* Application.add_transcoder: "self.transcoders[key] = transcoder" with
\* key = mime_type or transcoder.MIME_TYPE.  A tuple does not support item
\* assignment: TypeError, and the tuple is as it was.  (A dict would take
\* the item under the key.)
AddTranscoder(transcoders, transcoder, mime_type) ==
    Let(IF mime_type # Mime("", "") THEN mime_type ELSE transcoder.mime_type, LAMBDA key :
        IF transcoders.kind = "tuple"
        THEN [ok |-> FALSE, exc |-> "TypeError", key |-> key, transcoders |-> transcoders]
        ELSE [ok |-> TRUE, exc |-> "", key |-> key,
              transcoders |-> [transcoders EXCEPT !.map =
                                  [m \in DOMAIN @ \cup {key} |->
                                      IF m = key THEN transcoder ELSE @[m]]]])

TextFamily == {"Text", "JSON", "FormURLEncoded", "YAML"}

\* MessagePack.marshall: umsgpack.packb(normalize(value))
MessagePackMarshall(value, bld) ==
    Let(normalize(value, bld), LAMBDA n :
        IF n.ok THEN [ok |-> TRUE, exc |-> "", data |-> MsgpackPack(n.value)]
        ELSE [ok |-> FALSE, exc |-> n.exc, data |-> <<>>])

\* JSON.marshall: json.dumps(normalize(obj), **self.marshall_options)
JsonMarshall(value, bld) ==
    Let(normalize(value, bld), LAMBDA n :
        IF n.ok THEN [ok |-> TRUE, exc |-> "", text |-> JsonDumps(n.value)]
        ELSE [ok |-> FALSE, exc |-> n.exc, text |-> <<>>])

\* MessagePack.unmarshall: umsgpack.unpackb(data)
MessagePackUnmarshall(data) == MsgpackUnpack(data)

\* Transcoder.to_bytes / Text.to_bytes on a mapping.  Text.to_bytes calls
\* escape.recursive_to_str(inst_data) without the encoding that function
\* requires; the base to_bytes of a Binary() built without a marshall
\* function calls itself; MessagePack marshalls normalize(value).
ToBytes(tc, value, bld) ==
    CASE tc.cls = "None" ->
            [ok |-> FALSE, exc |-> "AttributeError", ctype |-> tc.mime_type, data |-> <<>>]
      [] tc.cls \in TextFamily ->
            [ok |-> FALSE, exc |-> "TypeError", ctype |-> tc.mime_type, data |-> <<>>]
      [] tc.cls = "Binary" ->
            [ok |-> FALSE, exc |-> "RecursionError", ctype |-> tc.mime_type, data |-> <<>>]
      [] tc.cls = "MessagePack" ->
            Let(normalize(value, bld), LAMBDA n :
                IF n.ok
                THEN [ok |-> TRUE, exc |-> "", ctype |-> tc.mime_type,
                      data |-> MsgpackPack(n.value)]
                ELSE [ok |-> FALSE, exc |-> n.exc, ctype |-> tc.mime_type, data |-> <<>>])

\* The text cut at every separator.
RECURSIVE Split(_, _)
Split(text, sep) ==
    IF \A i \in 1..Len(text) : text[i] # sep THEN <<text>>
    ELSE Let(CHOOSE i \in 1..Len(text) : text[i] = sep /\ \A j \in 1..(i - 1) : text[j] # sep,
             LAMBDA i : <<SubSeq(text, 1, i - 1)>> \o Split(SubSeq(text, i + 1, Len(text)), sep))

\* The name and the value of a field "name=value"; "=" is code point 61.
FieldName(field) == Split(field, 61)[1]
FieldValue(field) == SubSeq(field, Len(FieldName(field)) + 2, Len(field))

\* FormURLEncoded.unmarshall: parse.parse_qs of text without escapes, which
\* drops the fields of no value; a name given once has its value, a name
\* given more often the list of its values.
ParseQs(text) ==
    Let(SelectSeq(Split(text, 38), LAMBDA f : FieldValue(f) # <<>>), LAMBDA fields :
      Let(SelectSeq([i \in 1..Len(fields) |->
                        IF \E j \in 1..(i - 1) : FieldName(fields[j]) = FieldName(fields[i])
                        THEN <<>> ELSE <<FieldName(fields[i])>>],
                    LAMBDA n : n # <<>>),
          LAMBDA names :
            VDict([i \in 1..Len(names) |->
                     Let(SelectSeq(fields, LAMBDA f : FieldName(f) = names[i][1]), LAMBDA own :
                         <<names[i][1],
                           IF Len(own) = 1 THEN VStr(FieldValue(own[1]))
                           ELSE VList([j \in 1..Len(own) |-> VStr(FieldValue(own[j]))])>>)])))

\* The JSON documents json.loads is given: the values of None, booleans,
\* integers, text, lists and mappings that json.dumps writes.
RECURSIVE IsJsonValue(_)
IsJsonValue(v) ==
    CASE v.k \in {"none", "bool", "int", "str"} -> TRUE
      [] v.k = "list" -> \A i \in 1..Len(v.items) : IsJsonValue(v.items[i])
      [] v.k = "dict" -> \A i \in 1..Len(v.pairs) : IsJsonValue(v.pairs[i][2])
      [] OTHER -> FALSE

\* JSON.unmarshall: json.loads of compact text, the value that text is the
\* JSON of; JSONDecodeError, a ValueError, for text that is no JSON.
JsonLoads(text, documents) ==
    Let({v \in documents : JsonDumps(v) = text}, LAMBDA hits :
        IF hits = {} THEN [ok |-> FALSE, exc |-> "ValueError", value |-> VNone]
        ELSE [ok |-> TRUE, exc |-> "", value |-> CHOOSE v \in hits : TRUE])

\* Transcoder.from_bytes / Text.from_bytes.  A Text() built without an
\* unmarshall function has from_bytes itself as _unmarshall, which is then
\* given text and calls decode on it; the base from_bytes of a Binary()
\* calls itself.  (No YAML document is among the bodies: yaml.load is
\* PyYAML's.)
FromBytes(tc, data, documents) ==
    CASE tc.cls = "Text" -> [ok |-> FALSE, exc |-> "AttributeError", value |-> VNone]
      [] tc.cls = "Binary" -> [ok |-> FALSE, exc |-> "RecursionError", value |-> VNone]
      [] tc.cls = "JSON" -> JsonLoads(Utf8Decode(data), documents)
      [] tc.cls = "FormURLEncoded" ->
            [ok |-> TRUE, exc |-> "", value |-> ParseQs(Utf8Decode(data))]
      [] tc.cls = "MessagePack" -> MessagePackUnmarshall(data)

(***************************************************************************)
(* The Accept header and response content-type negotiation.                *)
(***************************************************************************)
\* One media range of an Accept header: q is its quality in tenths, 10 also
\* for a range that gives none.
Range(t, st, q) == [type |-> t, subtype |-> st, params |-> "", q |-> q]

AcceptAbsent == [present |-> FALSE, ranges |-> <<>>]
AcceptOf(ranges) == [present |-> TRUE, ranges |-> ranges]
AcceptAny == AcceptOf(<<Range("*", "*", 10)>>)

\* headers.parse_accept of the default_content_type setting: one range of
\* quality 1.0 that keeps the setting's parameters.
SettingRange(m) == [type |-> m.type, subtype |-> m.subtype, params |-> m.params, q |-> 10]

\* The ranges of quality q, in the header's order.
RangesOfQuality(ranges, q) == SelectSeq(ranges, LAMBDA r : r.q = q)

\* headers.parse_accept: the ranges by descending quality.
ParseAccept(ranges) ==
    Flatten([i \in 1..11 |-> RangesOfQuality(ranges, 11 - i)])

\* The registered content types in the order of their type, then subtype:
\* the order sorted() gives the parsed content types.
MimeOrder ==
    <<[type |-> "application", subtype |-> "json", params |-> ""],
      [type |-> "application", subtype |-> "msgpack", params |-> ""],
      [type |-> "application", subtype |-> "octet-stream", params |-> ""],
      [type |-> "application", subtype |-> "x-www-form-urlencoded", params |-> ""],
      [type |-> "text", subtype |-> "html", params |-> ""],
      [type |-> "text", subtype |-> "plain", params |-> ""],
      [type |-> "text", subtype |-> "x-yaml", params |-> ""]>>

\* sorted(available)
SortedTypes(available) ==
    SelectSeq(MimeOrder, LAMBDA m : \E i \in 1..Len(available) : available[i] = m)

\* ietfparse's content-type match: a pattern's "*" matches anything.
ContentTypeMatches(candidate, pattern) ==
    /\ (pattern.type = "*" \/ candidate.type = pattern.type)
    /\ (pattern.subtype = "*" \/ candidate.subtype = pattern.subtype)

\* candidate == pattern: type, subtype and parameters are the same.
SameContentType(candidate, pattern) ==
    /\ candidate.type = pattern.type
    /\ candidate.subtype = pattern.subtype
    /\ candidate.params = pattern.params

\* The strength of a match: 0 a full type, 1 a wildcard subtype, 2 "*/*".
MatchType(pattern) ==
    IF pattern.type = "*" /\ pattern.subtype = "*" THEN 2
    ELSE IF pattern.subtype = "*" THEN 1
    ELSE 0

\* The pair the loops of select_content_type come to first.
FirstPair(pairs) ==
    CHOOSE x \in pairs :
        \A y \in pairs : x[1] < y[1] \/ (x[1] = y[1] /\ x[2] <= y[2])

\* The selection failed: errors.NoMatch.
NoMatch == [ok |-> FALSE, selected |-> Mime("", "")]

\* algorithms.select_content_type.  The requested ranges are gone through
\* in their parsed order and, for each, the available types in sorted
\* order.  The first available type equal to a range is returned at once
\* (NoMatch when that range has quality 0); otherwise the matches are sorted
\* by their strength, a stable sort, and the first is returned.  The
\* registered types have no parameters, so the parameter distance of every
\* match is 0.
SelectContentType(requested, available) ==
    Let(SortedTypes(available), LAMBDA sorted :
      Let({x \in (1..Len(requested)) \X (1..Len(sorted)) :
              ContentTypeMatches(sorted[x[2]], requested[x[1]])},
          LAMBDA matches :
            Let({x \in matches : SameContentType(sorted[x[2]], requested[x[1]])},
                LAMBDA exact :
                  IF exact # {}
                  THEN Let(FirstPair(exact), LAMBDA x :
                          IF requested[x[1]].q = 0 THEN NoMatch
                          ELSE [ok |-> TRUE, selected |-> sorted[x[2]]])
                  ELSE IF matches = {} THEN NoMatch
                  ELSE Let({x \in matches :
                              \A y \in matches :
                                  MatchType(requested[x[1]]) <= MatchType(requested[y[1]])},
                           LAMBDA best :
                              [ok |-> TRUE, selected |-> sorted[FirstPair(best)[2]]]))))

\* _get_response_content_type negotiating an Accept header of "*/*" like
\* any other Accept header.
ResponseContentTypeOfAccept(accept, st, bld) ==
    Let(SelectContentType(IF ~accept.present \/ accept.ranges = <<>>
                          THEN <<SettingRange(st.default_content_type)>>
                          ELSE ParseAccept(accept.ranges),
                          RegistryList(bld)),
        LAMBDA sel :
            IF sel.ok THEN Mime(sel.selected.type, sel.selected.subtype)
            ELSE st.default_content_type)

\* RequestHandler._get_response_content_type, without its cache.
ResponseContentType(accept, st, bld) ==
    Let(SelectContentType(IF accept = AcceptAny \/ ~accept.present \/ accept.ranges = <<>>
                          THEN <<SettingRange(st.default_content_type)>>
                          ELSE ParseAccept(accept.ranges),
                          RegistryList(bld)),
        LAMBDA sel :
            IF sel.ok THEN Mime(sel.selected.type, sel.selected.subtype)
            ELSE st.default_content_type)

\* The Content-Type header of a request: none, one ietfparse cannot parse,
\* or a content type.
NoContentType == [present |-> FALSE, parsed |-> FALSE, mime |-> Mime("", "")]
BadContentType == [present |-> TRUE, parsed |-> FALSE, mime |-> Mime("", "")]
ContentTypeOf(m) == [present |-> TRUE, parsed |-> TRUE, mime |-> m]

\* request.body: None until the parser's on_body sets it.
NoBody == [present |-> FALSE, data |-> <<>>]
BodyOf(data) == [present |-> TRUE, data |-> data]

\* What get_body_arguments returns or raises; named: the message of the
\* exception holds the Content-Type.
BodyArguments(none, cls, value) ==
    [ok |-> TRUE, exc |-> "", named |-> FALSE, none |-> none, by |-> cls, value |-> value]
BodyFailure(exc, named, cls) ==
    [ok |-> FALSE, exc |-> exc, named |-> named, none |-> FALSE, by |-> cls, value |-> VNone]

\* RequestHandler.get_body_arguments, without its cache.  The header is
\* parsed whenever there is a body: headers.parse_content_type raises
\* ValueError for the '' of a missing header as for any text that is no
\* 'type/subtype', so the test 'if not parsed' is never reached with a
\* false value.
GetBodyArguments(body, ctype, bld, documents) ==
    IF ~body.present \/ body.data = <<>> THEN BodyArguments(TRUE, "", VNone)
    ELSE IF ~ctype.present \/ ~ctype.parsed THEN BodyFailure("ValueError", FALSE, "")
    ELSE Let(SelectContentType(<<SettingRange(ctype.mime)>>, RegistryList(bld)), LAMBDA sel :
            IF ~sel.ok THEN BodyFailure("ValueError", TRUE, "")
            ELSE Let(RegistryGet(bld, Mime(sel.selected.type, sel.selected.subtype)), LAMBDA tc :
                    Let(FromBytes(tc, body.data, documents), LAMBDA r :
                        IF r.ok THEN BodyArguments(FALSE, tc.cls, r.value)
                        ELSE BodyFailure(r.exc, FALSE, tc.cls))))

(***************************************************************************)
(* Exceptions.                                                             *)
(***************************************************************************)
NoChunk == [t |-> "none", b |-> <<>>, m |-> <<>>]
BytesChunk(b) == [t |-> "bytes", b |-> b, m |-> <<>>]
StrChunk(text) == [t |-> "str", b |-> text, m |-> <<>>]
DictChunk(pairs) == [t |-> "dict", b |-> <<>>, m |-> pairs]   \* pairs: <<key text, int>>
IntChunk(n) == [t |-> "int", b |-> <<n>>, m |-> <<>>]

\* Python's truth value of a chunk.
Truthy(chunk) ==
    CASE chunk.t = "none" -> FALSE
      [] chunk.t = "int" -> chunk.b[1] # 0
      [] chunk.t = "dict" -> chunk.m # <<>>
      [] OTHER -> chunk.b # <<>>

\* An exception: its class, the status code of an HTTPError, the argument
\* of a Finish.
Exc(cls) == [cls |-> cls, status_code |-> 0, nargs |-> 0, arg |-> NoChunk]
NoExc == Exc("None")
FinishExc(nargs, arg) == [cls |-> "Finish", status_code |-> 0, nargs |-> nargs, arg |-> arg]
HTTPErrorInst(status) == [cls |-> "HTTPError", status_code |-> status, nargs |-> 0, arg |-> NoChunk]

\* isinstance(error, Finish), isinstance(error, HTTPError)
IsFinish(e) == e.cls = "Finish"
IsHTTPError(e) == e.cls = "HTTPError"

\* http.HTTPStatus(status_code, phrase, description), a call of an Enum
\* class with three positional arguments.  Before Python 3.12 the call takes
\* the value and one more positional argument and raises TypeError; from
\* 3.12 it looks the tuple of its arguments up as a member value, and no
\* member has that value: ValueError.
HTTPStatusCall(bld) == Exc(IF bld.enumPacksValues THEN "ValueError" ELSE "TypeError")

\* HTTPError.__init__: the exception of the HTTPStatus call leaves the
\* constructor, so "raise HTTPError(status)" raises that exception.
HTTPErrorInit(status, bld) ==
    Let(HTTPStatusCall(bld), LAMBDA failed :
        IF failed = NoExc
        THEN [ok |-> TRUE, error |-> HTTPErrorInst(status)]
        ELSE [ok |-> FALSE, error |-> failed])

\* HTTPError.phrase and HTTPError.description, for the instances the model
\* lets user code raise.
Txt_status_code == <<115, 116, 97, 116, 117, 115, 95, 99, 111, 100, 101>>
Txt_exception == <<101, 120, 99, 101, 112, 116, 105, 111, 110>>
Txt_phrase == <<112, 104, 114, 97, 115, 101>>
Txt_description == <<100, 101, 115, 99, 114, 105, 112, 116, 105, 111, 110>>
Txt_traceback == <<116, 114, 97, 99, 101, 98, 97, 99, 107>>
Txt_exc_info == <<101, 120, 99, 95, 105, 110, 102, 111>>
Txt_HTTPError == <<72, 84, 84, 80, 69, 114, 114, 111, 114>>
Phrase404 == <<78, 111, 116, 32, 70, 111, 117, 110, 100>>
Description404 ==
    <<78, 111, 116, 104, 105, 110, 103, 32, 109, 97, 116, 99, 104, 101, 115, 32,
      116, 104, 101, 32, 103, 105, 118, 101, 110, 32, 85, 82, 73>>
Phrase503 ==
    <<83, 101, 114, 118, 105, 99, 101, 32, 85, 110, 97, 118, 97, 105, 108, 97,
      98, 108, 101>>
Description503 ==
    <<84, 104, 101, 32, 115, 101, 114, 118, 101, 114, 32, 99, 97, 110, 110, 111,
      116, 32, 112, 114, 111, 99, 101, 115, 115, 32, 116, 104, 101, 32, 114, 101,
      113, 117, 101, 115, 116, 32, 100, 117, 101, 32, 116, 111, 32, 97, 32, 104,
      105, 103, 104, 32, 108, 111, 97, 100>>
ErrorPhrase(e) == IF e.status_code = 404 THEN Phrase404 ELSE Phrase503
ErrorDescription(e) == IF e.status_code = 404 THEN Description404 ELSE Description503

(***************************************************************************)
(* The request, the response and the transport.                            *)
(***************************************************************************)
NoTime == -1

\* Header values: a str known by name, an int, the date text, the text of
\* a content type, and a str given by its characters.
HStr(s) == [k |-> "str", s |-> s, n |-> 0, mime |-> Mime("", ""), text |-> <<>>]
HInt(n) == [k |-> "int", s |-> "", n |-> n, mime |-> Mime("", ""), text |-> <<>>]
HDate(t) == [k |-> "str", s |-> "date", n |-> t, mime |-> Mime("", ""), text |-> <<>>]
HMime(m) == [k |-> "str", s |-> "", n |-> 0, mime |-> m, text |-> <<>>]
HText(text) == [k |-> "str", s |-> "", n |-> 0, mime |-> Mime("", ""), text |-> text]

SetKey(h, key, v) == [x \in DOMAIN h \cup {key} |-> IF x = key THEN v ELSE h[x]]

\* The keys of a dict in the order they were inserted: assigning to a key
\* the dict holds keeps its place, a new key goes to the end.
InsertKey(order, key) ==
    IF \E i \in 1..Len(order) : order[i] = key THEN order ELSE Append(order, key)

\* transport.get_extra_info('peername')[0]
PeerIp == <<49, 48, 46, 48, 46, 48, 46, 49>>

\* HTTPRequest.__init__; headers holds the header fields other than Accept.
NewRequest(t) ==
    [_finish_time |-> NoTime, _start_time |-> t, path |-> <<>>, has_path |-> FALSE,
     method |-> "", accept |-> AcceptAbsent, has_response |-> FALSE,
     remote_ip |-> PeerIp, headers |-> <<>>, body |-> NoBody]

\* HTTPRequest.finished
Finished(req) == req._finish_time # NoTime

\* HTTPResponse.default_headers
DefaultHeaders(server_header, default_content_type, t) ==
    [x \in {"Server", "Content-Type", "Date"} |->
        CASE x = "Server" -> HStr(server_header)
          [] x = "Content-Type" -> HMime(default_content_type)
          [] x = "Date" -> HDate(t)]

\* The class attributes of HTTPResponse and HTTPResponse.__init__
NewResponse(version, server_header, default_content_type, t) ==
    [body |-> <<>>, status_code |-> 200, headers_written |-> FALSE,
     http_version |-> version,
     headers |-> DefaultHeaders(server_header, default_content_type, t),
     headers_order |-> <<"Server", "Content-Type", "Date">>]

\* response.headers[field] = value
SetResponseHeader(resp, field, value) ==
    [resp EXCEPT !.headers = SetKey(@, field, value),
                 !.headers_order = InsertKey(@, field)]

NoResponse == NewResponse("", "", Mime("", ""), 0)

NewTransport == [written |-> <<>>, closed |-> 0, lost |-> FALSE]

\* transport.write(data): the call and whether close() had been called.
TransportWrite(tr, kind, status, headers, data) ==
    [tr EXCEPT !.written = Append(@, [kind |-> kind, status |-> status,
                                       headers |-> headers, data |-> data,
                                       late |-> tr.closed > 0])]

\* server._normalize_header_key for the names the model uses.
NormalizeHeaderKey(key) ==
    CASE key = "content-length" -> "Content-Length"
      [] key = "content-type" -> "Content-Type"
      [] OTHER -> key

\* re.compile(r'[\x00-\x1f]').match(value): re.match tries the pattern at
\* the start of the text only, so it finds a control character that is the
\* first character and no other.
InvalidHeaderCharMatch(text) == text # <<>> /\ text[1] \in 0..31

\* server._normalize_header_value: text passes, an integer becomes its
\* decimal text (digits only); a value the pattern matches is refused with
\* ValueError.
NormalizeHeaderValue(v) ==
    IF v.k = "int" THEN [ok |-> TRUE, value |-> [v EXCEPT !.k = "str", !.s = "decimal"]]
    ELSE IF InvalidHeaderCharMatch(v.text) THEN [ok |-> FALSE, value |-> v]
    ELSE [ok |-> TRUE, value |-> v]

\* server._normalize_headers: ValueError when a value is refused.  The
\* loop assigns normalized[key] in the order of the dict, so of the keys
\* with one normalized name the one inserted last gives the value.
NormalizeHeaders(h, order) ==
    [ok |-> \A key \in DOMAIN h : NormalizeHeaderValue(h[key]).ok,
     headers |->
        [x \in {NormalizeHeaderKey(key) : key \in DOMAIN h} |->
            LET last == CHOOSE i \in 1..Len(order) :
                           /\ NormalizeHeaderKey(order[i]) = x
                           /\ \A j \in (i + 1)..Len(order) : NormalizeHeaderKey(order[j]) # x
            IN  NormalizeHeaderValue(h[order[last]]).value]]

\* The status codes of http.client.responses the model uses.
KnownStatus == {200, 204, 301, 302, 404, 405, 500, 503}

(***************************************************************************)
(* Operations thread one record S == [request, response, transport,        *)
(* cache, now, finishes, self] and answer [S, exc]: the state they leave   *)
(* and the exception they raise (NoExc when they return).                  *)
(***************************************************************************)
Ret(S) == [S |-> S, exc |-> NoExc]
Raise(S, e) == [S |-> S, exc |-> e]
Raised(r) == r.exc # NoExc

\* A write_headers without its guard: it writes whenever called.
WriteHeadersAgain(S) ==
    IF S.response.status_code \notin KnownStatus THEN Raise(S, Exc("KeyError"))
    ELSE Let(NormalizeHeaders(S.response.headers, S.response.headers_order), LAMBDA normalized :
        IF ~normalized.ok THEN Raise(S, Exc("ValueError"))
        ELSE Ret([S EXCEPT
                    !.transport = TransportWrite(@, "head", S.response.status_code,
                                                 normalized.headers, <<>>),
                    !.response.headers_written = TRUE]))

\* HTTPResponse.write_headers: the bytes are built before transport.write
\* is called, first the status line (KeyError for a status that
\* http.client.responses does not know), then the header lines.
WriteHeaders(S) ==
    IF S.response.headers_written THEN Raise(S, Exc("RuntimeError"))
    ELSE IF S.response.status_code \notin KnownStatus THEN Raise(S, Exc("KeyError"))
    ELSE Let(NormalizeHeaders(S.response.headers, S.response.headers_order), LAMBDA normalized :
        IF ~normalized.ok THEN Raise(S, Exc("ValueError"))
        ELSE Ret([S EXCEPT
                    !.transport = TransportWrite(@, "head", S.response.status_code,
                                                 normalized.headers, <<>>),
                    !.response.headers_written = TRUE]))

\* HTTPResponse.write_body
WriteBody(S) ==
    Ret([S EXCEPT !.transport =
            TransportWrite(@, "body", 0, <<>>, S.response.body)])

\* HTTPResponse.flush
Flush(S) ==
    Let(IF ~S.response.headers_written THEN WriteHeaders(S) ELSE Ret(S), LAMBDA h :
        IF Raised(h) THEN h
        ELSE Let(WriteBody(h.S), LAMBDA b : Ret([b.S EXCEPT !.response.body = <<>>])))

\* A finish() without its guard: it finishes the request whenever called.
FinishRequestAgain(S) ==
    Ret([S EXCEPT !.request._finish_time = S.now,
                  !.transport.closed = @ + 1])

\* HTTPRequest.finish
FinishRequest(S) ==
    IF Finished(S.request) THEN Raise(S, Exc("RuntimeError"))
    ELSE Ret([S EXCEPT !.request._finish_time = S.now,
                       !.transport.closed = @ + 1])

\* A call of HTTPRequest.finish, noted in the history S.finishes.
RequestFinish(S) ==
    Let(FinishRequest(S), LAMBDA r :
        [r EXCEPT !.S.finishes =
            Append(@, [raised |-> Raised(r),
                       time_before |-> S.request._finish_time,
                       time_after |-> r.S.request._finish_time,
                       closed_before |-> S.transport.closed,
                       closed_after |-> r.S.transport.closed])])

\* A send_response that writes the response and leaves the request
\* unfinished.
SendResponseKeepingOpen(S) ==
    Let(WriteHeaders(IF "Content-Length" \notin DOMAIN S.response.headers
                     THEN [S EXCEPT !.response =
                              SetResponseHeader(@, "Content-Length",
                                                HInt(Len(S.response.body)))]
                     ELSE S),
        LAMBDA h : IF Raised(h) THEN h ELSE WriteBody(h.S))

\* HTTPRequest.send_response
SendResponseOp(S) ==
    Let(WriteHeaders(IF "Content-Length" \notin DOMAIN S.response.headers
                     THEN [S EXCEPT !.response =
                              SetResponseHeader(@, "Content-Length",
                                                HInt(Len(S.response.body)))]
                     ELSE S),
        LAMBDA h :
            IF Raised(h) THEN h
            ELSE Let(WriteBody(h.S), LAMBDA b : RequestFinish(b.S)))

(***************************************************************************)
(* The request handler.                                                    *)
(***************************************************************************)
NoCache == [ctype |-> [set |-> FALSE, key |-> "", val |-> Mime("", "")],
            tc |-> [set |-> FALSE, key |-> "", val |-> NoTranscoder]]

\* A cache lookup that ignores whose entry it is.
CacheHitOfAnyHandler(entry, key) == entry.set

\* functools.lru_cache(1) decorates the function in the class body: each
\* method has one cache of one entry for the handlers of all requests, and
\* the entry is keyed by the handler (self).  A call by another handler
\* replaces the entry.
CacheHit(entry, key) == entry.set /\ entry.key = key
CacheEntry(key, val) == [set |-> TRUE, key |-> key, val |-> val]

\* RequestHandler._get_response_content_type behind functools.lru_cache(1):
\* answered from the cache when its entry is of this handler, computed and
\* stored otherwise.
GetResponseContentType(S, st, bld) ==
    IF CacheHit(S.cache.ctype, S.self) THEN [S |-> S, val |-> S.cache.ctype.val]
    ELSE Let(ResponseContentType(S.request.accept, st, bld), LAMBDA v :
         [S |-> [S EXCEPT !.cache.ctype = CacheEntry(S.self, v)], val |-> v])

\* RequestHandler._get_response_transcoder behind functools.lru_cache(1).
GetResponseTranscoder(S, st, bld) ==
    IF CacheHit(S.cache.tc, S.self) THEN [S |-> S, val |-> S.cache.tc.val]
    ELSE Let(GetResponseContentType(S, st, bld), LAMBDA g :
         Let(IF g.val # Mime("", "") THEN RegistryGet(bld, g.val) ELSE NoTranscoder, LAMBDA v :
             [S |-> [g.S EXCEPT !.cache.tc = CacheEntry(S.self, v)], val |-> v]))

\* RequestHandler.set_header
SetHeader(S, field, value) == [S EXCEPT !.response = SetResponseHeader(@, field, value)]

\* RequestHandler.set_status with no phrase: http.HTTPStatus(status_code)
\* raises ValueError for a code that is no member.
SetStatus(S, status_code) ==
    IF status_code \in KnownStatus
    THEN Ret([S EXCEPT !.response.status_code = status_code])
    ELSE Raise([S EXCEPT !.response.status_code = status_code], Exc("ValueError"))

\* RequestHandler.write, the branch of a mapping.
WriteDict(S, value, st, bld) ==
    Let(GetResponseTranscoder(S, st, bld), LAMBDA g :
        Let(ToBytes(g.val, value, bld), LAMBDA r :
            IF ~r.ok THEN Raise(g.S, Exc(r.exc))
            ELSE Ret([SetHeader(g.S, "Content-Type", HMime(r.ctype))
                        EXCEPT !.response.body = @ \o r.data])))

\* The mapping a dict chunk stands for.
ChunkValue(chunk) == VDict([i \in 1..Len(chunk.m) |-> <<chunk.m[i][1], VInt(chunk.m[i][2])>>])

\* RequestHandler.write
Write(S, chunk, st, bld) ==
    CASE chunk.t = "str" -> Ret([S EXCEPT !.response.body = @ \o Utf8Encode(chunk.b)])
      [] chunk.t = "dict" -> WriteDict(S, ChunkValue(chunk), st, bld)
      [] chunk.t = "bytes" -> Ret([S EXCEPT !.response.body = @ \o chunk.b])
      [] OTHER -> Raise(S, Exc("ValueError"))

\* RequestHandler.finish
Finish(S, chunk, st, bld) ==
    IF Finished(S.request) THEN Raise(S, Exc("RuntimeError"))
    ELSE IF Truthy(chunk) THEN Write(S, chunk, st, bld)
    ELSE Ret(S)

\* RequestHandler.flush
HandlerFlush(S) == Flush(S)

\* RequestHandler.redirect: "status = status or 301 if permanent else 302"
\* is the conditional expression (status or 301) if permanent else 302;
\* status 0 stands for None.  Then set_status, set_header and finish().
Redirect(S, url, permanent, status, st, bld) ==
    Let(IF permanent THEN (IF status # 0 THEN status ELSE 301) ELSE 302, LAMBDA code :
        Let(SetStatus(S, code), LAMBDA r :
            IF Raised(r) THEN r
            ELSE Finish(SetHeader(r.S, "Location", HStr(url)), NoChunk, st, bld)))

\* RequestHandler.require_setting: settings.get(name) of a setting that is
\* missing (or falsy) raises HTTPError(503).
SettingIsSet(st, name) == name \in {"default_handler_class", "default_handler_name"}
RequireSetting(S, name, st, bld) ==
    IF ~SettingIsSet(st, name) THEN Raise(S, HTTPErrorInit(503, bld).error) ELSE Ret(S)

\* The names HTML_ERROR_TEMPLATE substitutes and the keys write_error puts
\* into values.
HtmlTemplateFields == {"status_code", "reason", "message", "traceback"}
ErrorValueKeys(exc_info) ==
    {"status_code", "exception", "phrase", "description", "traceback"}
        \cup (IF exc_info THEN {"exc_info"} ELSE {})

\* write_error's values for the negotiated-object rendering: kwargs are
\* copied into values before exc_info is deleted from kwargs.  The stack
\* is the formatted traceback, one line here.
ErrorValues(error, exc_info, st) ==
    VDict(<<<<Txt_status_code, VInt(error.status_code)>>,
            <<Txt_exception, VStr(Txt_HTTPError)>>,
            <<Txt_phrase, VStr(ErrorPhrase(error))>>,
            <<Txt_description, VStr(ErrorDescription(error))>>>>
          \o (IF exc_info THEN <<<<Txt_exc_info, VList(<<VObject, VObject, VObject>>)>>>>
              ELSE <<>>)
          \o <<<<Txt_traceback,
                 IF exc_info /\ st.serve_traceback THEN VList(<<VStr(Txt_traceback)>>)
                 ELSE VList(<<>>)>>>>)

\* RequestHandler.write_error.  The answer also tells the payload handed to
\* finish() and by it to write() (VNone: an HTML page, or the request was
\* finished and finish() raised before it wrote).
WriteError(S, error, exc_info, st, bld) ==
    Let(GetResponseContentType(S, st, bld), LAMBDA g :
        IF g.val.type = "text" /\ g.val.subtype = "html"
        THEN Let(SetHeader(g.S, "Content-Type", HMime(g.val)), LAMBDA S1 :
                 Let(IF HtmlTemplateFields \subseteq ErrorValueKeys(exc_info)
                     THEN Finish(S1, StrChunk(ErrorPhrase(error)), st, bld)
                     ELSE Raise(S1, Exc("KeyError")),
                     LAMBDA r : [S |-> r.S, exc |-> r.exc, payload |-> VNone]))
        ELSE IF Finished(g.S.request)
        THEN [S |-> g.S, exc |-> Exc("RuntimeError"), payload |-> VNone]
        ELSE Let(ErrorValues(error, exc_info, st), LAMBDA values :
                 Let(WriteDict(g.S, values, st, bld),
                     LAMBDA r : [S |-> r.S, exc |-> r.exc, payload |-> values])))

\* RequestHandler._handle_request_exception.  The answer also tells the
\* branch taken, whether the error was logged, the status code write_error
\* was called with (0: not called) and the status code of the HTTPError
\* the branch is about (0: none).
HandleRequestException(S, error, st, bld) ==
    IF IsFinish(error)
    THEN Let(IF Finished(S.request) THEN Ret(S)
             ELSE IF error.nargs > 1 THEN Raise(S, Exc("TypeError"))
             ELSE Finish(S, error.arg, st, bld),
             LAMBDA r : [S |-> r.S, exc |-> r.exc, branch |-> "finish", logged |-> FALSE,
                         rendered |-> 0, status |-> 0])
    ELSE IF IsHTTPError(error)
    THEN Let(WriteError(S, error, FALSE, st, bld),
             LAMBDA r : [S |-> r.S, exc |-> r.exc, branch |-> "http_error", logged |-> FALSE,
                         rendered |-> error.status_code, status |-> error.status_code])
    ELSE Let(HTTPErrorInit(500, bld), LAMBDA e :
             IF ~e.ok
             THEN [S |-> S, exc |-> e.error, branch |-> "other", logged |-> TRUE,
                   rendered |-> 0, status |-> 500]
             ELSE Let(WriteError(S, e.error, TRUE, st, bld),
                      LAMBDA r : [S |-> r.S, exc |-> r.exc, branch |-> "other",
                                  logged |-> TRUE, rendered |-> 500, status |-> 500]))

\* The attributes of a handler class that getattr(self, name, None) finds.
BaseAttrs == {"initialize", "prepare", "on_connection_closed", "on_finished", "name",
              "settings", "clear", "clear_header", "finish", "flush", "redirect",
              "get_body_arguments", "get_request_language", "get_request_encoding",
              "get_status", "require_setting", "send_error", "set_header", "set_status",
              "write", "write_error", "execute", "request_summary"}
ClassVerbs(cls) == IF cls \in {"GetHandler", "RedirectHandler"} THEN {"get"} ELSE {}
ClassAttrs(cls) == BaseAttrs \cup ClassVerbs(cls)

\* str.lower() of the request methods the model sends.
Lower(method) == CASE method = "GET" -> "get" [] method = "POST" -> "post" [] OTHER -> method

\* RequestHandler.__init__ and RedirectHandler.__init__; the latter's
\* "self._url = typing.Optional[str] = None" assigns to a subscript of
\* typing.Optional, which raises TypeError.
HandlerInit(cls) == IF cls = "RedirectHandler" THEN Exc("TypeError") ELSE NoExc

\* method(*self.route.args, **self.route.kwargs): the positional arguments
\* a call receives from unpacking args.
Unpack(args) == [i \in 1..Len(args) |-> <<args[i]>>]

\* A log_request of two bands: informational below 500, error from 500.
LogLevelOfTwoBands(status) == IF status < 500 THEN "info" ELSE "error"

\* Application.log_request: the severity chosen for the status code.
LogLevel(status) == IF status < 400 THEN "info" ELSE IF status < 500 THEN "warning" ELSE "error"

(***************************************************************************)
(* The inputs of the lifecycle specification.                              *)
(***************************************************************************)
\* Deployments: the interpreter and optional libraries with the settings
\* argument.  Python 3.9 with umsgpack and yaml and no settings; Python
\* 3.12 with both and the settings of examples/app.py; Python 3.9 with
\* neither library and no settings.
Deployments ==
    {[build |-> [umsgpack |-> TRUE, yaml |-> TRUE, abcAlias |-> TRUE, enumPacksValues |-> FALSE],
      given |-> [default_content_type |-> DefaultContentTypeSetting, serve_traceback |-> FALSE]],
     [build |-> [umsgpack |-> TRUE, yaml |-> TRUE, abcAlias |-> FALSE, enumPacksValues |-> TRUE],
      given |-> [default_content_type |-> Mime("application", "json"), serve_traceback |-> TRUE]],
     [build |-> [umsgpack |-> FALSE, yaml |-> FALSE, abcAlias |-> TRUE, enumPacksValues |-> FALSE],
      given |-> [default_content_type |-> DefaultContentTypeSetting, serve_traceback |-> FALSE]]}

\* The routes argument of the application.
AuthorRoutes ==
    <<RouteArgs(<<Lit("/"), Group>>, "GetHandler", "", "", TRUE),
      RouteArgs(<<Lit("/"), Lit("a"), Lit("/"), Named("id")>>, "GetHandler", "", "item", FALSE),
      RouteArgs(<<Lit("/"), Lit("a")>>, "RedirectHandler", "url", "", FALSE)>>

RequestPaths == {<<>>, <<"/", "1">>, <<"/", "a", "/", "2">>, <<"/", "a">>, <<"/", "2", "/">>}
RequestMethods == {"GET", "POST"}
AcceptHeaders == {AcceptOf(<<Range("application", "json", 10)>>),
                  AcceptOf(<<Range("application", "msgpack", 10)>>),
                  AcceptOf(<<Range("image", "png", 10)>>)}

\* What user code passes to write() and finish(), and what it raises.  An
\* HTTPError it raises is an instance of a subclass whose constructor sets
\* status_code and _status itself.
WriteChunks == {BytesChunk(<<120>>), StrChunk(<<233>>), DictChunk(<<<<<<97>>, 1>>>>),
                IntChunk(5)}
FinishChunks == {NoChunk, BytesChunk(<<120>>)}
UserExcs == {FinishExc(0, NoChunk), FinishExc(1, BytesChunk(<<121>>)),
             HTTPErrorInst(404), HTTPErrorInst(503), Exc("ValueError")}
SettingNames == {"default_handler_name", "api_key"}

UserClasses == {"GetHandler"}
UserStages == {"initialize", "prepare", "verb", "on_finished"}

(***************************************************************************)
(* State.                                                                  *)
(***************************************************************************)
NoHandler == [cls |-> "", exc |-> NoExc, calls |-> 0, on_connection_closed |-> 0,
              verb |-> [invoked |-> FALSE, name |-> "", args |-> <<>>, kwargs |-> <<>>]]
NoCall == [op |-> "", chunk |-> NoChunk, exc |-> NoExc, finished_before |-> FALSE,
           before |-> NoResponse, after |-> NoResponse]
NoHandled == [branch |-> "", error |-> NoExc, logged |-> FALSE, rendered |-> 0,
              finished_before |-> FALSE, before |-> NoResponse, after |-> NoResponse]
NoEscape == [where |-> "", exc |-> NoExc]

\* No call has been probed.
NoProbe == [op |-> ""]

\* The history: the phases passed, the last API call, the calls of
\* HTTPRequest.finish, what the except clause did, the exception that left
\* the lifecycle, how the verb lookup ended, and the status code of the
\* HTTPError last raised or constructed (0: none), and the forwarding
\* header received.
NoHistory == [phases |-> <<>>, last |-> NoCall, finishes |-> <<>>,
              handled |-> NoHandled, escaped |-> NoEscape,
              verb_lookup |-> "", http_status |-> 0,
              header |-> [key |-> "", value |-> <<>>]]

Init ==
    /\ \E d \in Deployments :
          /\ build = d.build
          /\ settings = SetDefaultSettings(d.given)
    /\ routes = CompileRoutes(AuthorRoutes, settings)
    /\ pc = "new"
    /\ now = 0
    /\ request = NewRequest(0)
    /\ response = NoResponse
    /\ transport = NewTransport
    /\ route = NoRoute
    /\ handler = NoHandler
    /\ cache = NoCache
    /\ logs = [access |-> <<>>, errors |-> 0]
    /\ hist = NoHistory
    /\ probe = NoProbe

\* The record the operations thread, and its way back into the variables.
Cur == [request |-> request, response |-> response, transport |-> transport,
        cache |-> cache, now |-> now, finishes |-> hist.finishes, self |-> "handler"]

Commit(S) ==
    /\ request' = S.request
    /\ response' = S.response
    /\ transport' = S.transport
    /\ cache' = S.cache
    /\ now' = now + 1

Fixed == UNCHANGED <<build, settings, routes, probe>>

ServerHeader == "troika-http/version"

(***************************************************************************)
(* The connection: HTTPServerProtocol and the parser's callbacks.          *)
(***************************************************************************)
\* HTTPServerProtocol.connection_made
ConnectionMade ==
    /\ pc = "new"
    /\ pc' = "parsing"
    /\ request' = NewRequest(now)
    /\ now' = now + 1
    /\ hist' = [hist EXCEPT !.phases = Append(@, "connection_made")]
    /\ Fixed
    /\ UNCHANGED <<response, transport, route, handler, cache, logs>>

\* HTTPServerProtocol.connection_lost, called by the event loop when the
\* peer goes away.  It logs at debug level when given an exception and
\* does nothing else: it calls no method of the handler and cancels no
\* task.  Modelled for the peer of a GET request that goes away while the
\* task of execute waits for its first step, the point where the event
\* loop runs its other callbacks: before the dispatch no handler exists,
\* and after finish() the server closed the connection itself.
ConnectionLost ==
    /\ pc = "scheduled"
    /\ request.method = "GET"
    /\ ~transport.lost
    /\ transport' = [transport EXCEPT !.lost = TRUE]
    /\ Fixed
    /\ UNCHANGED <<pc, now, request, response, route, handler, cache, logs, hist>>

\* HTTPServerProtocol.on_url
OnUrl ==
    /\ pc = "parsing" /\ ~request.has_path
    /\ \E path \in RequestPaths :
          request' = [request EXCEPT !.path = path, !.has_path = TRUE]
    /\ now' = now + 1
    /\ Fixed
    /\ UNCHANGED <<pc, response, transport, route, handler, cache, logs, hist>>

\* HTTPServerProtocol.on_header, for an Accept header
OnHeader ==
    /\ pc = "parsing" /\ request.has_path /\ request.method = ""
    /\ ~request.accept.present
    /\ \E value \in AcceptHeaders : request' = [request EXCEPT !.accept = value]
    /\ now' = now + 1
    /\ Fixed
    /\ UNCHANGED <<pc, response, transport, route, handler, cache, logs, hist>>

\* HTTPServerProtocol.on_header for the key X-Forwarded-For or X-Real-Ip
\* and the value the parser hands over, which is bytes.  value.split(',')
\* splits bytes by a str and raises TypeError before ipaddress.ip_address
\* is called; "except ValueError" does not catch it, and the assignment to
\* request.headers after the branches is not reached.
ForwardedHeader(req, key, value) ==
    Let(Exc("TypeError"), LAMBDA raised :
        IF raised.cls = "ValueError"
        THEN [request |-> [req EXCEPT !.headers = SetKey(@, key, Utf8Decode(value))],
              exc |-> NoExc]
        ELSE [request |-> req, exc |-> raised])

\* The values of the forwarding headers: b'::1', b'x', b'x, ::1'.
ForwardedValues == {<<58, 58, 49>>, <<120>>, <<120, 44, 32, 58, 58, 49>>}

\* HTTPServerProtocol.on_header for X-Forwarded-For and X-Real-Ip.  An
\* exception leaves the callback and the parser's feed_data.
OnForwardedHeader ==
    /\ pc = "parsing" /\ request.has_path /\ request.method = ""
    /\ hist.header.key = ""
    /\ \E key \in {"X-Forwarded-For", "X-Real-Ip"}, value \in ForwardedValues :
          \E r \in {ForwardedHeader(request, key, value)} :
              /\ request' = r.request
              /\ pc' = IF r.exc # NoExc THEN "escaped" ELSE pc
              /\ hist' = [hist EXCEPT
                             !.header = [key |-> key, value |-> value],
                             !.escaped = IF r.exc # NoExc
                                         THEN [where |-> "on_header", exc |-> r.exc] ELSE @]
    /\ now' = now + 1
    /\ Fixed
    /\ UNCHANGED <<response, transport, route, handler, cache, logs>>

\* An on_headers_complete that dispatches: it matches the route, constructs
\* the handler and schedules execute() without waiting for the message to
\* be complete.
OnHeadersCompleteDispatching ==
    /\ pc = "parsing" /\ request.has_path /\ request.method = ""
    /\ \E m \in RequestMethods : request' = [request EXCEPT !.method = m]
    /\ route' = match(routes, <<"/", "1">>)
    /\ handler' = [NoHandler EXCEPT !.cls = "GetHandler"]
    /\ pc' = "scheduled"
    /\ now' = now + 1
    /\ Fixed
    /\ UNCHANGED <<response, transport, cache, logs, hist>>

\* HTTPServerProtocol.on_headers_complete
OnHeadersComplete ==
    /\ pc = "parsing" /\ request.has_path /\ request.method = ""
    /\ \E m \in RequestMethods : request' = [request EXCEPT !.method = m]
    /\ now' = now + 1
    /\ Fixed
    /\ UNCHANGED <<pc, response, transport, route, handler, cache, logs, hist>>

\* HTTPServerProtocol.on_message_complete with Application.dispatch: the
\* response is created, the route matched, the handler constructed and its
\* execute() coroutine scheduled.  A failure to construct the handler
\* (also: no route matched, match is None) is logged and answered with
\* "raise HTTPError(500)", which leaves dispatch and the callback.
OnMessageComplete ==
    /\ pc = "parsing" /\ request.method # ""
    /\ \E m \in {match(routes, request.path)} :
       \E failed \in {IF ~m.matched THEN Exc("AttributeError") ELSE HandlerInit(m.handler)} :
           /\ route' = m
           /\ response' = NewResponse("1.1", ServerHeader, settings.default_content_type, now)
           /\ request' = [request EXCEPT !.has_response = TRUE]
           /\ IF failed # NoExc
              THEN /\ pc' = "escaped"
                   /\ logs' = [logs EXCEPT !.errors = @ + 1]
                   /\ hist' = [hist EXCEPT
                                 !.phases = Append(@, "message_complete"),
                                 !.http_status = 500,
                                 !.escaped = [where |-> "dispatch",
                                              exc |-> HTTPErrorInit(500, build).error]]
                   /\ handler' = handler
              ELSE /\ pc' = "scheduled"
                   /\ logs' = logs
                   /\ hist' = [hist EXCEPT !.phases = Append(@, "message_complete")]
                   /\ handler' = [NoHandler EXCEPT !.cls = m.handler]
    /\ now' = now + 1
    /\ Fixed
    /\ UNCHANGED <<transport, cache>>

(***************************************************************************)
(* RequestHandler.execute, from one await to the next.                     *)
(***************************************************************************)
\* Where an exception raised in a stage goes: out of execute from
\* initialize and on_finished, to the except clause from prepare and the
\* verb method.  status is the status code of the HTTPError the raise
\* statement names (0: it names none).
RaiseIn(stage, e, status, lookup) ==
    /\ pc' = IF stage \in {"prepare", "verb"} THEN "handle_exception" ELSE "escaped"
    /\ handler' = [handler EXCEPT !.exc = e]
    /\ hist' = [hist EXCEPT
                  !.http_status = IF status # 0 THEN status ELSE @,
                  !.verb_lookup = IF lookup # "" THEN lookup ELSE @,
                  !.escaped = IF stage \in {"prepare", "verb"} THEN @
                              ELSE [where |-> stage, exc |-> e]]

\* The task starts execute(), which awaits initialize.
StartExecute ==
    /\ pc = "scheduled"
    /\ pc' = "initialize"
    /\ hist' = [hist EXCEPT !.phases = Append(@, "initialize")]
    /\ now' = now + 1
    /\ Fixed
    /\ UNCHANGED <<request, response, transport, route, handler, cache, logs>>

\* initialize returns; execute awaits _execute, which awaits prepare.
EndInitialize ==
    /\ pc = "initialize"
    /\ pc' = "prepare"
    /\ hist' = [hist EXCEPT !.phases = Append(@, "prepare")]
    /\ now' = now + 1
    /\ Fixed
    /\ UNCHANGED <<request, response, transport, route, handler, cache, logs>>

\* DefaultHandler.prepare
DefaultPrepare ==
    /\ pc = "prepare" /\ handler.cls = "DefaultHandler"
    /\ RaiseIn("prepare", HTTPErrorInit(404, build).error, 404, "")
    /\ now' = now + 1
    /\ Fixed
    /\ UNCHANGED <<request, response, transport, route, cache, logs>>

\* prepare returns; _execute looks the verb method up and awaits it, or
\* raises HTTPError(405), or skips the verb of a finished request.
EndPrepare ==
    /\ pc = "prepare" /\ handler.cls # "DefaultHandler"
    /\ IF Finished(request)
       THEN /\ pc' = "send_response"
            /\ UNCHANGED <<handler, hist>>
       ELSE IF Lower(request.method) \notin ClassAttrs(handler.cls)
       THEN RaiseIn("prepare", HTTPErrorInit(405, build).error, 405, "missing")
       ELSE /\ pc' = "verb"
            /\ handler' = [handler EXCEPT
                             !.verb = [invoked |-> TRUE, name |-> Lower(request.method),
                                       args |-> Unpack(route.args),
                                       kwargs |-> route.kwargs]]
            /\ hist' = [hist EXCEPT !.phases = Append(@, "verb"), !.verb_lookup = "found"]
    /\ now' = now + 1
    /\ Fixed
    /\ UNCHANGED <<request, response, transport, route, cache, logs>>

\* The verb method returns.
EndVerb ==
    /\ pc = "verb"
    /\ pc' = "send_response"
    /\ now' = now + 1
    /\ Fixed
    /\ UNCHANGED <<request, response, transport, route, handler, cache, logs, hist>>

\* User code raises in initialize, prepare, the verb method or on_finished.
StageRaises ==
    /\ pc \in UserStages /\ handler.cls \in UserClasses
    /\ \E e \in UserExcs : RaiseIn(pc, e, e.status_code, "")
    /\ now' = now + 1
    /\ Fixed
    /\ UNCHANGED <<request, response, transport, route, cache, logs>>

\* execute's except clause: _handle_request_exception.
HandleException ==
    /\ pc = "handle_exception"
    /\ \E r \in {HandleRequestException(Cur, handler.exc, settings, build)} :
       /\ Commit(r.S)
       /\ logs' = IF r.logged THEN [logs EXCEPT !.errors = @ + 1] ELSE logs
       /\ hist' = [hist EXCEPT
                     !.phases = Append(@, "error"),
                     !.finishes = r.S.finishes,
                     !.handled = [branch |-> r.branch, error |-> handler.exc,
                                  logged |-> r.logged, rendered |-> r.rendered,
                                  finished_before |-> Finished(request),
                                  before |-> response, after |-> r.S.response],
                     !.http_status = IF r.status # 0 THEN r.status ELSE @,
                     !.escaped = IF Raised(r) THEN [where |-> "handle_exception", exc |-> r.exc]
                                 ELSE @]
       /\ pc' = IF Raised(r) THEN "escaped" ELSE "send_response"
    /\ Fixed
    /\ UNCHANGED <<route, handler>>

\* execute: self.request.send_response()
SendResponse ==
    /\ pc = "send_response"
    /\ \E r \in {SendResponseOp(Cur)} :
       /\ Commit(r.S)
       /\ hist' = [hist EXCEPT
                     !.phases = Append(@, "send_response"),
                     !.finishes = r.S.finishes,
                     !.escaped = IF Raised(r) THEN [where |-> "send_response", exc |-> r.exc]
                                 ELSE @]
       /\ pc' = IF Raised(r) THEN "escaped" ELSE "log"
    /\ Fixed
    /\ UNCHANGED <<route, handler, logs>>

\* execute: the access log record unless the route suppresses it, then
\* the await of on_finished.
LogRequest ==
    /\ pc = "log"
    /\ logs' = IF route.suppress_logging THEN logs
               ELSE [logs EXCEPT !.access =
                        Append(@, [level |-> LogLevel(response.status_code),
                                   status |-> response.status_code,
                                   finished |-> Finished(request),
                                   written |-> transport.written])]
    /\ pc' = "on_finished"
    /\ hist' = [hist EXCEPT !.phases = @ \o (IF route.suppress_logging THEN <<>> ELSE <<"log">>)
                                         \o <<"on_finished">>]
    /\ now' = now + 1
    /\ Fixed
    /\ UNCHANGED <<request, response, transport, route, handler, cache>>

\* on_finished returns, and with it execute.
EndOnFinished ==
    /\ pc = "on_finished"
    /\ pc' = "done"
    /\ now' = now + 1
    /\ Fixed
    /\ UNCHANGED <<request, response, transport, route, handler, cache, logs, hist>>

(***************************************************************************)
(* The handler's API, called by user code in a stage.  An exception the    *)
(* call raises propagates out of the stage.                                *)
(***************************************************************************)
MayCall == pc \in UserStages /\ handler.cls \in UserClasses /\ handler.calls < MaxCalls

Called(op, chunk, r) ==
    /\ Commit(r.S)
    /\ pc' = IF ~Raised(r) THEN pc
             ELSE IF pc \in {"prepare", "verb"} THEN "handle_exception" ELSE "escaped"
    /\ handler' = [handler EXCEPT !.exc = IF Raised(r) THEN r.exc ELSE @, !.calls = @ + 1]
    /\ hist' = [hist EXCEPT
                  !.last = [op |-> op, chunk |-> chunk, exc |-> r.exc,
                            finished_before |-> Finished(request),
                            before |-> response, after |-> r.S.response],
                  !.finishes = r.S.finishes,
                  !.http_status = IF op = "require_setting" /\ Raised(r) THEN 503 ELSE @,
                  !.escaped = IF Raised(r) /\ pc \notin {"prepare", "verb"}
                              THEN [where |-> pc, exc |-> r.exc] ELSE @]
    /\ Fixed
    /\ UNCHANGED <<route, logs>>

CallWrite ==
    /\ MayCall
    /\ \E chunk \in WriteChunks :
          \E r \in {Write(Cur, chunk, settings, build)} : Called("write", chunk, r)

CallFinish ==
    /\ MayCall
    /\ \E chunk \in FinishChunks :
          \E r \in {Finish(Cur, chunk, settings, build)} : Called("finish", chunk, r)

CallFlush == MayCall /\ \E r \in {HandlerFlush(Cur)} : Called("flush", NoChunk, r)

CallSetStatus ==
    /\ MayCall
    /\ \E code \in {404, 503} :
          \E r \in {SetStatus(Cur, code)} : Called("set_status", IntChunk(code), r)

CallRequireSetting ==
    /\ MayCall
    /\ \E name \in SettingNames :
          \E r \in {RequireSetting(Cur, name, settings, build)} :
              Called("require_setting", NoChunk, r)

\* self.request.finish()
CallRequestFinish ==
    MayCall /\ \E r \in {RequestFinish(Cur)} : Called("request.finish", NoChunk, r)

Next ==
    \/ ConnectionMade
    \/ ConnectionLost
    \/ OnUrl
    \/ OnHeader
    \/ OnForwardedHeader
    \/ OnHeadersComplete
    \/ OnMessageComplete
    \/ StartExecute
    \/ EndInitialize
    \/ DefaultPrepare
    \/ EndPrepare
    \/ EndVerb
    \/ StageRaises
    \/ HandleException
    \/ SendResponse
    \/ LogRequest
    \/ EndOnFinished
    \/ CallWrite
    \/ CallFinish
    \/ CallFlush
    \/ CallSetStatus
    \/ CallRequireSetting
    \/ CallRequestFinish

Spec == Init /\ [][Next]_vars

(***************************************************************************)
(* Routing alone: an application of any table of up to MaxRoutes routes    *)
(* is asked for the route of any path of up to MaxPathLen characters.      *)
(***************************************************************************)
\* The patterns routes are written with: /(\d+), /a, /.* and a(?P<id>\d+)$
RoutePatterns == {<<Lit("/"), Group>>, <<Lit("/"), Lit("a")>>, <<Lit("/"), DotStar>>,
                  <<Lit("a"), Named("id"), Eol>>}

\* The handler class of the i-th route of a table, one class per position.
HandlerName(i) == <<"Handler1", "Handler2", "Handler3", "Handler4">>[i]

RouteTables ==
    {[i \in 1..Len(ps) |-> RouteArgs(ps[i], HandlerName(i), "", "", FALSE)] :
        ps \in SeqsUpTo(RoutePatterns, MaxRoutes)}

RouteInit ==
    /\ \E d \in Deployments :
          /\ build = d.build
          /\ settings = SetDefaultSettings(d.given)
    /\ \E author \in RouteTables : routes = CompileRoutes(author, settings)
    /\ pc = "routing"
    /\ now = 0
    /\ request = NewRequest(0)
    /\ response = NoResponse
    /\ transport = NewTransport
    /\ route = NoRoute
    /\ handler = NoHandler
    /\ cache = NoCache
    /\ logs = [access |-> <<>>, errors |-> 0]
    /\ hist = NoHistory
    /\ probe = NoProbe

\* route.match(self.routes, request), as Application.dispatch calls it.
MatchPath ==
    /\ pc = "routing"
    /\ \E path \in SeqsUpTo(Chars, MaxPathLen) :
          /\ request' = [request EXCEPT !.path = path, !.has_path = TRUE]
          /\ route' = match(routes, path)
    /\ pc' = "routed"
    /\ Fixed
    /\ UNCHANGED <<now, response, transport, handler, cache, logs, hist>>

RouteNext == MatchPath

RouteSpec == RouteInit /\ [][RouteNext]_vars

(***************************************************************************)
(* Transcoding alone: one call of negotiation, of body decoding or of a    *)
(* transcoder, on an application of any deployment.                        *)
(***************************************************************************)
\* The media ranges Accept headers are written with.
RangePatterns == {<<"text", "html">>, <<"text", "plain">>, <<"application", "json">>,
                  <<"application", "msgpack">>, <<"application", "*">>, <<"text", "*">>,
                  <<"*", "*">>, <<"image", "png">>}
Qualities == {0, 5, 10}
AcceptRanges == {Range(p[1], p[2], q) : p \in RangePatterns, q \in Qualities}

\* The Accept headers negotiated: none, an empty one, and every list of up
\* to MaxRanges ranges of different qualities.
NegotiatedAccepts ==
    {AcceptAbsent} \cup
    {AcceptOf(rs) : rs \in {x \in SeqsUpTo(AcceptRanges, MaxRanges) :
                              \A i, j \in 1..Len(x) : i # j => x[i].q # x[j].q}}

\* The deployments of the lifecycle, and Python 3.9 with one of the two
\* libraries.
TranscodeDeployments ==
    Deployments \cup
    {[build |-> [umsgpack |-> m, yaml |-> ~m, abcAlias |-> TRUE, enumPacksValues |-> FALSE],
      given |-> [default_content_type |-> DefaultContentTypeSetting, serve_traceback |-> FALSE]] :
        m \in BOOLEAN}

TranscodeInit ==
    /\ \E d \in TranscodeDeployments :
          /\ build = d.build
          /\ settings = SetDefaultSettings(d.given)
    /\ routes = CompileRoutes(AuthorRoutes, settings)
    /\ pc = "calling"
    /\ now = 0
    /\ request = NewRequest(0)
    /\ response = NoResponse
    /\ transport = NewTransport
    /\ route = NoRoute
    /\ handler = NoHandler
    /\ cache = NoCache
    /\ logs = [access |-> <<>>, errors |-> 0]
    /\ hist = NoHistory
    /\ probe = NoProbe

\* The call returns or raises; nothing of the connection changes.
Returned ==
    /\ pc' = "returned"
    /\ UNCHANGED <<build, settings, routes, now, request, response, transport,
                   route, handler, cache, logs, hist>>

\* handler._get_response_content_type() for a request with the Accept header
Negotiate ==
    /\ pc = "calling"
    /\ \E accept \in NegotiatedAccepts :
          probe' = [op |-> "negotiate", accept |-> accept,
                    result |-> ResponseContentType(accept, settings, build)]
    /\ Returned

\* The values transcoded.  The atoms: None, a boolean, 1, -2^63, "foo", the
\* two-byte "e acute", bytes, a bytearray and an object of no supported
\* type.
Atoms == {VNone, VBool(TRUE), VInt(1), VLong(TRUE, HalfRange(8)), VStr(<<102, 111, 111>>),
          VStr(<<233>>), VBytes(<<0, 255>>), VByteArray(<<1>>), VObject}

\* The items of a container: none, one, or one and after it 1 or an object.
ItemLists(S) ==
    {<<>>} \cup {<<x>> : x \in S} \cup {<<x, y>> : x \in S, y \in {VInt(1), VObject}}

\* The members of a set are hashable and differ.
SetLists == {x \in ItemLists(Atoms \ {VByteArray(<<1>>)}) : Len(x) < 2 \/ x[1] # x[2]}

\* The mappings with the keys "a" and "b" over the item lists.
PairLists(S) ==
    {[i \in 1..Len(x) |-> <<<<96 + i>>, x[i]>>] : x \in ItemLists(S)}

\* The values nested to a depth: the atoms, and the lists, tuples and
\* mappings of values one level less deep, and the sets of atoms.
RECURSIVE ValuesOfDepth(_)
ValuesOfDepth(d) ==
    IF d = 0 THEN Atoms
    ELSE Let(ValuesOfDepth(d - 1), LAMBDA inner :
            Atoms \cup {VList(x) : x \in ItemLists(inner)}
                  \cup {VTuple(x) : x \in ItemLists(inner)}
                  \cup {VSet(x) : x \in SetLists}
                  \cup {VDict(x) : x \in PairLists(inner)})

TranscodedValues == ValuesOfDepth(MaxDepth)

\* The JSON documents of one level of nesting.
JsonDocuments == {v \in ValuesOfDepth(1) : IsJsonValue(v)}

\* The request bodies: none, b'', b'{"a":1}', b'foo', b'a=1&b=2&a=3' and
\* the MessagePack of {'a': 1}.
RequestBodies ==
    {NoBody, BodyOf(<<>>), BodyOf(<<123, 34, 97, 34, 58, 49, 125>>), BodyOf(<<102, 111, 111>>),
     BodyOf(<<97, 61, 49, 38, 98, 61, 50, 38, 97, 61, 51>>), BodyOf(<<129, 161, 97, 1>>)}

\* The Content-Type headers: none, an unparseable one, registered types
\* without and with a parameter, and image/png.
ContentTypes ==
    {NoContentType, BadContentType, ContentTypeOf(MimeCharset("application", "json", "charset=utf-8")),
     ContentTypeOf(Mime("image", "png"))}
    \cup {ContentTypeOf(Mime(p[1], p[2])) :
            p \in {<<"text", "plain">>, <<"text", "html">>, <<"application", "json">>,
                   <<"application", "octet-stream">>, <<"application", "msgpack">>,
                   <<"application", "x-www-form-urlencoded">>}}

\* handler.get_body_arguments() for a request with the body and the
\* Content-Type header
DecodeBody ==
    /\ pc = "calling"
    /\ \E body \in RequestBodies, ctype \in ContentTypes :
          probe' = [op |-> "get_body_arguments", body |-> body, ctype |-> ctype,
                    result |-> GetBodyArguments(body, ctype, build, JsonDocuments)]
    /\ Returned

\* The text transcoders of the registry, and the values each is given:
\* text for Text, JSON documents for JSON, a mapping of text for the others.
TextTranscoders(bld) ==
    {RegistryGet(bld, m) : m \in DOMAIN RegistryMap(bld)} \ {RegistryGet(bld, Mime("application", "octet-stream")),
                                                           RegistryGet(bld, Mime("application", "msgpack"))}
TextValues(tc) ==
    CASE tc.cls = "Text" -> {VStr(<<102, 111, 111>>), VStr(<<233>>)}
      [] tc.cls = "JSON" -> JsonDocuments
      [] OTHER -> {VDict(<<<<<<102, 111, 111>>, VStr(<<98, 97, 114>>)>>>>)}

\* transcoder.to_bytes(value) of a Text, JSON, FormURLEncoded or YAML
\* transcoder, and from_bytes of the bytes it returned
TextTranscode ==
    /\ pc = "calling"
    /\ \E tc \in TextTranscoders(build) :
          \E v \in TextValues(tc) :
              \E r \in {ToBytes(tc, v, build)} :
                  probe' = [op |-> "text_transcode", tc |-> tc, value |-> v, to |-> r,
                            from |-> IF r.ok THEN FromBytes(tc, r.data, JsonDocuments)
                                     ELSE [ok |-> FALSE, exc |-> r.exc, value |-> VNone]]
    /\ Returned

\* The byte strings of up to two bytes.
ByteStrings == SeqsUpTo({0, 102, 255}, 2)

\* Binary().to_bytes(b) and Binary().from_bytes(b)
BinaryTranscode ==
    /\ pc = "calling"
    /\ \E b \in ByteStrings :
          probe' = [op |-> "binary_transcode", data |-> b,
                    to |-> ToBytes(RegistryGet(build, Mime("application", "octet-stream")),
                                   VBytes(b), build),
                    from |-> FromBytes(RegistryGet(build, Mime("application", "octet-stream")),
                                       b, JsonDocuments)]
    /\ Returned

\* transcoders.default()
DefaultRegistry ==
    /\ pc = "calling"
    /\ probe' = [op |-> "default", list |-> RegistryList(build), map |-> RegistryMap(build)]
    /\ Returned

\* The magnitudes packed: 0, and for every number of bytes the magnitudes
\* with a leading byte at the edge of a width and the bytes after it all 0
\* or all 255.
Magnitudes ==
    {Zeros(8)} \cup
    {Zeros(8 - n) \o <<b>> \o [i \in 1..(n - 1) |-> f] :
        n \in 1..8, b \in {1, 32, 33, 127, 128, 129, 255}, f \in {0, 255}}

\* The integers packed: those of the magnitudes from -2^63 to 2^64 - 1.
PackedIntegers ==
    {VLong(FALSE, m) : m \in Magnitudes} \cup
    {VLong(TRUE, m) : m \in {x \in Magnitudes : x # Zeros(8) /\ LeqBytes(x, HalfRange(8))}}

\* MessagePack()._marshall(n) for an integer n
MarshallInteger ==
    /\ pc = "calling"
    /\ build.umsgpack
    /\ \E v \in PackedIntegers :
          probe' = [op |-> "marshall_integer", value |-> v,
                    result |-> MessagePackMarshall(v, build)]
    /\ Returned

\* transcoder._unmarshall(transcoder._marshall(v)) of a MessagePack()
RoundTrip ==
    /\ pc = "calling"
    /\ build.umsgpack
    /\ \E v \in TranscodedValues :
          \E m \in {MessagePackMarshall(v, build)} :
              probe' = [op |-> "round_trip", value |-> v, marshalled |-> m,
                        unmarshalled |-> IF m.ok THEN MessagePackUnmarshall(m.data)
                                         ELSE [ok |-> FALSE, exc |-> m.exc, value |-> VNone]]
    /\ Returned

\* transcoders.normalize(v)
NormalizeValue ==
    /\ pc = "calling"
    /\ \E v \in TranscodedValues :
          probe' = [op |-> "normalize", value |-> v, result |-> normalize(v, build)]
    /\ Returned

\* JSON().marshall(v)
MarshallJson ==
    /\ pc = "calling"
    /\ \E v \in TranscodedValues :
          probe' = [op |-> "json_marshall", value |-> v, result |-> JsonMarshall(v, build)]
    /\ Returned

\* The transcoders an author registers: one of a class of their own, with
\* and without the mime_type argument, and a JSON() under a vendor type.
AddedTranscoders ==
    {[tc |-> Transcoder("Custom", Mime("application", "x-custom")), mime_type |-> Mime("", "")],
     [tc |-> Transcoder("Custom", Mime("application", "x-custom")),
      mime_type |-> Mime("text", "csv")],
     [tc |-> Transcoder("JSON", Mime("application", "json")),
      mime_type |-> Mime("application", "vnd.api+json")]}

\* application.add_transcoder(transcoder, mime_type) before the server
\* accepts connections
RegisterTranscoder ==
    /\ pc = "calling"
    /\ \E a \in AddedTranscoders :
          probe' = [op |-> "add_transcoder", transcoder |-> a.tc, mime_type |-> a.mime_type,
                    before |-> ApplicationTranscoders(build),
                    result |-> AddTranscoder(ApplicationTranscoders(build), a.tc, a.mime_type)]
    /\ Returned

TranscodeNext ==
    \/ Negotiate
    \/ TextTranscode
    \/ BinaryTranscode
    \/ DefaultRegistry
    \/ DecodeBody
    \/ MarshallInteger
    \/ RoundTrip
    \/ NormalizeValue
    \/ MarshallJson
    \/ RegisterTranscoder

TranscodeSpec == TranscodeInit /\ [][TranscodeNext]_vars

(***************************************************************************)
(* Single calls: one call of a method of the handler of a request that     *)
(* was just dispatched, on an application of any deployment.               *)
(***************************************************************************)
\* The state execute() starts in for a request with the Accept header.
Dispatched(accept, st) ==
    [request |-> [NewRequest(0) EXCEPT !.accept = accept, !.method = "GET",
                                       !.has_path = TRUE, !.has_response = TRUE],
     response |-> NewResponse("1.1", ServerHeader, st.default_content_type, 0),
     transport |-> NewTransport, cache |-> NoCache, now |-> 1, finishes |-> <<>>,
     self |-> "handler"]

\* The call returns or raises, leaving the state S.
CallReturned(S) ==
    /\ pc' = "returned"
    /\ request' = S.request
    /\ response' = S.response
    /\ transport' = S.transport
    /\ cache' = S.cache
    /\ UNCHANGED <<build, settings, routes, now, route, handler, logs, hist>>

\* handler.write_error(error) and handler.write_error(error, exc_info=...)
\* as _handle_request_exception calls it
RenderError ==
    /\ pc = "calling"
    /\ \E accept \in AcceptHeaders \cup {AcceptAbsent}, exc_info \in BOOLEAN,
          error \in {HTTPErrorInst(404), HTTPErrorInst(503)} :
          \E r \in {WriteError(Dispatched(accept, settings), error, exc_info, settings, build)} :
              /\ probe' = [op |-> "write_error", error |-> error, exc_info |-> exc_info,
                           exc |-> r.exc, payload |-> r.payload]
              /\ CallReturned(r.S)

\* handler.redirect(url, permanent, status), status 0 for None
CallRedirect ==
    /\ pc = "calling"
    /\ \E permanent \in BOOLEAN, status \in {0, 301, 302} :
          \E r \in {Redirect(Dispatched(AcceptAbsent, settings), "url", permanent, status,
                              settings, build)} :
              /\ probe' = [op |-> "redirect", url |-> "url", permanent |-> permanent,
                           status |-> status, exc |-> r.exc]
              /\ CallReturned(r.S)

\* The header values set: the texts of up to MaxHeaderLen characters over
\* "a", NUL, LF and CR.
HeaderTexts == SeqsUpTo({97, 0, 10, 13}, MaxHeaderLen)

\* handler.set_header(field, value) and then response.write_headers(), as
\* send_response and flush call it
WriteHeadersWith ==
    /\ pc = "calling"
    /\ \E value \in HeaderTexts :
          \E r \in {WriteHeaders(SetHeader(Dispatched(AcceptAbsent, settings), "X-Custom",
                                           HText(value)))} :
              /\ probe' = [op |-> "write_headers", field |-> "X-Custom", value |-> value,
                           exc |-> r.exc]
              /\ CallReturned(r.S)

CallNext ==
    \/ RenderError
    \/ WriteHeadersWith
    \/ CallRedirect

CallSpec == TranscodeInit /\ [][CallNext]_vars

(***************************************************************************)
(* Memoization: the handler of one request calls its negotiation methods   *)
(* up to MaxResolves times; between the calls its user code may change the *)
(* Accept header of the request, and the handler of another request, which *)
(* the event loop runs while this one awaits, may call the same methods.   *)
(***************************************************************************)
MemoInit ==
    /\ \E d \in Deployments :
          /\ build = d.build
          /\ settings = SetDefaultSettings(d.given)
    /\ routes = CompileRoutes(AuthorRoutes, settings)
    /\ pc = "handling"
    /\ now = 0
    /\ \E accept \in AcceptHeaders \cup {AcceptAbsent, AcceptAny} :
          /\ request = Dispatched(accept, settings).request
          /\ response = Dispatched(accept, settings).response
    /\ transport = NewTransport
    /\ route = NoRoute
    /\ handler = NoHandler
    /\ cache = NoCache
    /\ logs = [access |-> <<>>, errors |-> 0]
    /\ hist = NoHistory
    /\ probe = [op |-> "memo", calls |-> <<>>, changed |-> FALSE, others |-> 0]

MemoFixed ==
    UNCHANGED <<build, settings, routes, pc, now, response, transport, route, handler,
                logs, hist>>

\* The method called on the handler whose state is S: its answer and the
\* caches it leaves.
Resolve(method, S, st, bld) ==
    IF method = "_get_response_content_type" THEN GetResponseContentType(S, st, bld)
    ELSE GetResponseTranscoder(S, st, bld)

NegotiationMethods == {"_get_response_content_type", "_get_response_transcoder"}

\* The entry of the method's cache.
Cached(method, c) == IF method = "_get_response_content_type" THEN c.ctype ELSE c.tc

\* handler._get_response_content_type() or handler._get_response_transcoder()
ResolveAgain ==
    /\ pc = "handling"
    /\ Len(probe.calls) < MaxResolves
    /\ \E method \in NegotiationMethods :
          \E r \in {Resolve(method, Cur, settings, build)} :
              /\ cache' = r.S.cache
              /\ probe' = [probe EXCEPT !.calls =
                              Append(@, [method |-> method, accept |-> request.accept,
                                         val |-> r.val,
                                         computed |-> ~CacheHit(Cached(method, cache),
                                                                "handler")])]
    /\ request' = request
    /\ MemoFixed

\* User code assigns another value to request.headers['Accept'].
ChangeAccept ==
    /\ pc = "handling"
    /\ ~probe.changed
    /\ \E accept \in AcceptHeaders \ {request.accept} :
          request' = [request EXCEPT !.accept = accept]
    /\ probe' = [probe EXCEPT !.changed = TRUE]
    /\ cache' = cache
    /\ MemoFixed

\* The handler of another request calls one of the methods: same caches,
\* another self.
OtherHandlerResolves ==
    /\ pc = "handling"
    /\ probe.others < 1
    /\ \E accept \in AcceptHeaders, method \in NegotiationMethods :
          \E r \in {Resolve(method, [Dispatched(accept, settings) EXCEPT
                                        !.self = "other", !.cache = cache],
                             settings, build)} :
              cache' = r.S.cache
    /\ probe' = [probe EXCEPT !.others = @ + 1]
    /\ request' = request
    /\ MemoFixed

MemoNext ==
    \/ ResolveAgain
    \/ ChangeAccept
    \/ OtherHandlerResolves

MemoSpec == MemoInit /\ [][MemoNext]_vars

(***************************************************************************)
(* The stages of one request: execute() has awaited initialize, which made *)
(* no call, and awaits prepare.  User code calls the handler's API in      *)
(* prepare and the verb method, up to MaxCalls times, and execute goes on  *)
(* to its end.                                                             *)
(***************************************************************************)
StageInit ==
    /\ \E d \in Deployments :
          /\ build = d.build
          /\ settings = SetDefaultSettings(d.given)
    /\ routes = CompileRoutes(AuthorRoutes, settings)
    /\ pc = "prepare"
    /\ now = 4
    /\ \E accept \in AcceptHeaders \cup {AcceptAbsent} :
          /\ request = [Dispatched(accept, settings).request
                           EXCEPT !.path = <<"/", "a", "/", "2">>]
          /\ response = Dispatched(accept, settings).response
    /\ transport = NewTransport
    /\ route = match(routes, <<"/", "a", "/", "2">>)
    /\ handler = [NoHandler EXCEPT !.cls = "GetHandler"]
    /\ cache = NoCache
    /\ logs = [access |-> <<>>, errors |-> 0]
    /\ hist = [NoHistory EXCEPT !.phases = <<"connection_made", "message_complete",
                                            "initialize", "prepare">>]
    /\ probe = NoProbe

\* User code calls self.request.response.write_headers().
CallWriteHeaders ==
    MayCall /\ \E r \in {WriteHeaders(Cur)} : Called("write_headers", NoChunk, r)

\* User code calls self.request.send_response().
CallSendResponse ==
    MayCall /\ \E r \in {SendResponseOp(Cur)} : Called("send_response", NoChunk, r)

\* The spellings of the header name user code sets, and the length it
\* announces: one no body of the model has.
ContentLengthNames == {"Content-Length", "content-length"}
AnnouncedLength == 7

\* User code calls self.set_header(name, AnnouncedLength).
CallSetContentLength ==
    /\ MayCall
    /\ \E name \in ContentLengthNames :
          \E r \in {Ret(SetHeader(Cur, name, HInt(AnnouncedLength)))} :
              Called("set_header", IntChunk(AnnouncedLength), r)

StageNext ==
    \/ CallWrite
    \/ CallFinish
    \/ CallFlush
    \/ CallWriteHeaders
    \/ CallSendResponse
    \/ CallSetContentLength
    \/ EndPrepare
    \/ EndVerb
    \/ HandleException
    \/ SendResponse
    \/ LogRequest
    \/ EndOnFinished

StageSpec == StageInit /\ [][StageNext]_vars

(***************************************************************************)
(* Parsing alone: the parser reports the URL, the end of the headers, up   *)
(* to MaxChunks pieces of the body and the end of the message.             *)
(***************************************************************************)
\* The pieces of a body the parser hands to on_body: "a" and "bc".
BodyChunks == {<<97>>, <<98, 99>>}

\* The pieces delivered so far.
Delivered == IF probe.op = "body" THEN probe.delivered ELSE <<>>

\* HTTPServerProtocol.on_body
OnBody ==
    /\ pc = "parsing" /\ request.method # ""
    /\ Len(Delivered) < MaxChunks
    /\ \E value \in BodyChunks :
          /\ request' = [request EXCEPT !.body = BodyOf(value)]
          /\ probe' = [op |-> "body", delivered |-> Append(Delivered, value)]
    /\ now' = now + 1
    /\ UNCHANGED <<build, settings, routes, pc, response, transport, route, handler,
                   cache, logs, hist>>

ParseNext ==
    \/ ConnectionMade
    \/ OnUrl
    \/ OnHeadersComplete
    \/ OnBody
    \/ OnMessageComplete

ParseSpec == Init /\ [][ParseNext]_vars

(***************************************************************************)
(* The body buffer: user code makes up to MaxCalls calls of write and      *)
(* flush on the response of a dispatched request, then execute sends the   *)
(* response.  probe.passed holds the bytes write appended to the body.     *)
(***************************************************************************)
BufferInit ==
    /\ \E d \in Deployments :
          /\ build = d.build
          /\ settings = SetDefaultSettings(d.given)
    /\ routes = CompileRoutes(AuthorRoutes, settings)
    /\ pc = "verb"
    /\ now = 1
    /\ \E accept \in AcceptHeaders \cup {AcceptAbsent} :
          /\ request = Dispatched(accept, settings).request
          /\ response = Dispatched(accept, settings).response
    /\ transport = NewTransport
    /\ route = NoRoute
    /\ handler = NoHandler
    /\ cache = NoCache
    /\ logs = [access |-> <<>>, errors |-> 0]
    /\ hist = NoHistory
    /\ probe = [op |-> "buffer", passed |-> <<>>, calls |-> 0, sent |-> FALSE,
                exc |-> NoExc]

BufferFixed == UNCHANGED <<build, settings, routes, route, handler, logs, hist>>

\* handler.write(chunk) for a chunk of bytes, of text or a mapping
BufferWrite ==
    /\ pc = "verb" /\ probe.calls < MaxCalls
    /\ \E chunk \in WriteChunks :
          \E r \in {Write(Cur, chunk, settings, build)} :
              /\ Commit(r.S)
              /\ probe' = [probe EXCEPT
                             !.calls = @ + 1,
                             !.passed = @ \o SubSeq(r.S.response.body,
                                                    Len(response.body) + 1,
                                                    Len(r.S.response.body))]
    /\ pc' = pc
    /\ BufferFixed

\* handler.flush()
BufferFlush ==
    /\ pc = "verb" /\ probe.calls < MaxCalls
    /\ \E r \in {HandlerFlush(Cur)} :
          /\ Commit(r.S)
          /\ probe' = [probe EXCEPT !.calls = @ + 1]
    /\ pc' = pc
    /\ BufferFixed

\* execute: self.request.send_response()
BufferSend ==
    /\ pc = "verb"
    /\ \E r \in {SendResponseOp(Cur)} :
          /\ Commit(r.S)
          /\ probe' = [probe EXCEPT !.sent = TRUE, !.exc = r.exc]
    /\ pc' = "returned"
    /\ BufferFixed

BufferNext ==
    \/ BufferWrite
    \/ BufferFlush
    \/ BufferSend

BufferSpec == BufferInit /\ [][BufferNext]_vars

(***************************************************************************)
(* Properties of routing.                                                  *)
(***************************************************************************)
\* C7: whenever some route of the compiled table matches the path, match()
\* answers with the earliest matching route in registration order; the
\* catch-all route is the last of the compiled table after the author's
\* routes in their order, so it is the answer only when no author route
\* matches.
C7_FirstMatchWins ==
    pc = "routed" =>
        LET hits == MatchingRoutes(routes, request.path)
            n == Len(routes)
        IN  /\ n >= 1
            /\ routes[n].pattern = CatchAllPattern
            /\ routes[n].handler = settings.default_handler_class
            /\ \A i \in 1..(n - 1) : routes[i].handler = HandlerName(i)
            /\ hits # {} =>
                  /\ route.matched
                  /\ \E i \in hits :
                        /\ \A j \in hits : i <= j
                        /\ route.handler = routes[i].handler
                        /\ route.pattern = routes[i].pattern
            /\ (route.matched /\ route.handler = settings.default_handler_class) =>
                  \A i \in 1..(n - 1) : ~RouteMatches(routes[i], request.path).ok

\* A path two author routes and the catch-all match has been routed to the
\* first of them.
C7_Witness ==
    /\ pc = "routed"
    /\ {1, 2, Len(routes)} \subseteq MatchingRoutes(routes, request.path)
    /\ Len(routes) = 3
    /\ route.matched
    /\ route.handler = HandlerName(1)

\* C8: match() over a compiled route table answers with a RouteMatch for
\* every request path, never with no result.
C8_MatchAlwaysReturns == pc = "routed" => route.matched

(***************************************************************************)
(* Properties of the request lifecycle.                                    *)
(***************************************************************************)
\* What has been written to the transport.
HeadsWritten == {i \in 1..Len(transport.written) : transport.written[i].kind = "head"}
BodiesWritten == {i \in 1..Len(transport.written) : transport.written[i].kind = "body"}

\* The lifecycle has ended: execute returned, or an exception left
\* dispatch or execute.
LifecycleEnded == pc \in {"done", "escaped"}

\* C1: a request that reached message-complete and whose lifecycle has
\* ended has had a status line with headers and a body written to its
\* transport and its connection closed, whatever was raised on the way.
C1_EveryRequestAnswered ==
    LifecycleEnded =>
        /\ HeadsWritten # {}
        /\ BodiesWritten # {}
        /\ Finished(request)
        /\ transport.closed >= 1

\* C2: an exception raised in prepare or the verb method is handled by the
\* branch of its class.  A Finish appends its payload to the body unless
\* the request was finished, and renders no error; an HTTPError is rendered
\* by write_error with that error; any other exception is logged and
\* rendered by write_error with an HTTPError of status 500.
C2_ExceptionClassified ==
    hist.handled.branch # "" =>
        LET h == hist.handled IN
        CASE IsFinish(h.error) ->
                /\ h.branch = "finish"
                /\ h.rendered = 0
                /\ ~h.logged
                /\ h.finished_before => h.after = h.before
                /\ (~h.finished_before /\ h.error.arg.t = "bytes") =>
                      h.after.body = h.before.body \o h.error.arg.b
          [] IsHTTPError(h.error) ->
                /\ h.branch = "http_error"
                /\ h.rendered = h.error.status_code
          [] OTHER ->
                /\ h.branch = "other"
                /\ h.logged
                /\ h.rendered = 500

\* C3: when the lifecycle has ended after an HTTPError of status s was
\* raised, a status line with status s has been written to the transport
\* and get_status() answers s.
C3_ErrorStatusSent ==
    (LifecycleEnded /\ hist.http_status # 0) =>
        /\ \E i \in HeadsWritten : transport.written[i].status = hist.http_status
        /\ response.status_code = hist.http_status

\* C4: of the calls of HTTPRequest.finish() on a request only the first
\* succeeds: it sets the finish time and closes the transport; every later
\* call raises, leaves the finish time as it was and does not close the
\* transport again.
C4_FinishAtMostOnce ==
    /\ \A i \in 1..Len(hist.finishes) :
          LET f == hist.finishes[i] IN
          IF i = 1
          THEN /\ ~f.raised
               /\ f.time_before = NoTime
               /\ f.time_after # NoTime
               /\ f.closed_after = f.closed_before + 1
          ELSE /\ f.raised
               /\ f.time_before # NoTime
               /\ f.time_after = f.time_before
               /\ f.closed_after = f.closed_before
    /\ transport.closed <= 1
    /\ Finished(request) <=> transport.closed = 1
    /\ Finished(request) <=> hist.finishes # <<>>

\* finish() was called on a finished request.
C4_Witness ==
    /\ Len(hist.finishes) >= 2
    /\ hist.finishes[2].raised
    /\ transport.closed = 1

\* The transcoder write() uses for a mapping.
NegotiatedTranscoder ==
    RegistryGet(build, ResponseContentType(request.accept, settings, build))

\* C5: write(chunk) appends bytes unchanged and text UTF-8 encoded; a
\* mapping is appended in the encoding of the negotiated transcoder, whose
\* MIME type becomes the Content-Type header; for a chunk of any other type
\* write raises and leaves the response as it was.
C5_WriteAcceptsBytesTextMappings ==
    hist.last.op = "write" =>
        LET c == hist.last IN
        CASE c.chunk.t = "bytes" ->
                /\ c.exc = NoExc
                /\ c.after.body = c.before.body \o c.chunk.b
                /\ c.after.headers = c.before.headers
          [] c.chunk.t = "str" ->
                /\ c.exc = NoExc
                /\ c.after.body = c.before.body \o Utf8Encode(c.chunk.b)
                /\ c.after.headers = c.before.headers
          [] c.chunk.t = "dict" ->
                /\ c.exc = NoExc
                /\ Len(c.after.body) > Len(c.before.body)
                /\ c.after.headers["Content-Type"] = HMime(NegotiatedTranscoder.mime_type)
          [] OTHER ->
                /\ c.exc # NoExc
                /\ c.after = c.before

\* C6: write(chunk) and finish(chunk) of the handler, called when the
\* request is finished, raise and leave the response body as it was.
C6_NoWriteAfterFinished ==
    (hist.last.op \in {"write", "finish"} /\ hist.last.finished_before) =>
        /\ hist.last.exc # NoExc
        /\ hist.last.after.body = hist.last.before.body

\* The texts of captured groups.
GroupTexts(groups) == [i \in 1..Len(groups) |-> groups[i].text]

\* C9: the RouteMatch of a path has the unnamed groups its pattern captured
\* as positional arguments and the named groups as keyword arguments, and
\* the verb method is invoked with them, one positional argument a group.
C9_CapturedGroupsAreArguments ==
    route.matched =>
        LET result == ReMatch(route.pattern, request.path) IN
        /\ Unpack(route.args) = GroupTexts(MatchPositional(result))
        /\ route.kwargs = MatchGroupDict(result)
        /\ handler.verb.invoked =>
              /\ handler.verb.args = GroupTexts(MatchPositional(result))
              /\ handler.verb.kwargs = MatchGroupDict(result)

\* C10: when the handler has no method of the request's lower-cased HTTP
\* method, an HTTPError of status 405 goes to the except clause and no
\* method is invoked as the verb; otherwise the method of that name, and
\* no other, is invoked.
C10_VerbSelection ==
    /\ hist.verb_lookup = "missing" =>
          /\ ~handler.verb.invoked
          /\ IsHTTPError(handler.exc)
          /\ handler.exc.status_code = 405
    /\ hist.verb_lookup = "found" =>
          /\ handler.verb.invoked
          /\ handler.verb.name = Lower(request.method)
    /\ handler.verb.invoked => hist.verb_lookup = "found"

(***************************************************************************)
(* Properties of negotiation and of the transcoders.                       *)
(***************************************************************************)
\* The registered types some range of the Accept header matches.
MatchedTypes(accept, bld) ==
    {i \in 1..Len(RegistryList(bld)) :
        \E r \in 1..Len(accept.ranges) :
            ContentTypeMatches(RegistryList(bld)[i], accept.ranges[r])}

BestMatchType(c, ranges) ==
    CHOOSE m \in 0..2 :
        /\ \E r \in 1..Len(ranges) : ContentTypeMatches(c, ranges[r]) /\ MatchType(ranges[r]) = m
        /\ \A r \in 1..Len(ranges) : ContentTypeMatches(c, ranges[r]) => m <= MatchType(ranges[r])
BestQuality(c, ranges) ==
    CHOOSE q \in 0..10 :
        /\ \E r \in 1..Len(ranges) :
              /\ ContentTypeMatches(c, ranges[r])
              /\ MatchType(ranges[r]) = BestMatchType(c, ranges)
              /\ ranges[r].q = q
        /\ \A r \in 1..Len(ranges) :
              (ContentTypeMatches(c, ranges[r]) /\ MatchType(ranges[r]) = BestMatchType(c, ranges))
                  => ranges[r].q <= q

\* C12: for an Accept header whose ranges all have a quality above 0 and
\* match some registered type, the negotiated type is the registered type
\* with the strongest match (exact before wildcard subtype before "*/*"),
\* among those the one of the highest quality, and among those the one
\* registered earliest.
C12_PrecedenceThenRegistrationOrder ==
    (/\ pc = "returned"
     /\ probe.op = "negotiate"
     /\ probe.accept.present
     /\ probe.accept # AcceptAny
     /\ \A r \in 1..Len(probe.accept.ranges) : probe.accept.ranges[r].q > 0
     /\ MatchedTypes(probe.accept, build) # {}) =>
        LET ranges == probe.accept.ranges
            reg == RegistryList(build)
            Before(i, j) ==
                \/ BestMatchType(reg[i], ranges) < BestMatchType(reg[j], ranges)
                \/ /\ BestMatchType(reg[i], ranges) = BestMatchType(reg[j], ranges)
                   /\ BestQuality(reg[i], ranges) > BestQuality(reg[j], ranges)
                \/ /\ BestMatchType(reg[i], ranges) = BestMatchType(reg[j], ranges)
                   /\ BestQuality(reg[i], ranges) = BestQuality(reg[j], ranges)
                   /\ i <= j
        IN  \E i \in MatchedTypes(probe.accept, build) :
                /\ \A j \in MatchedTypes(probe.accept, build) : Before(i, j)
                /\ probe.result = reg[i]

\* The sum of two byte sequences of one length, in that many bytes.
RECURSIVE SumBytes(_, _, _)
SumBytes(a, b, carry) ==
    IF a = <<>> THEN <<>>
    ELSE LET n == Len(a)
             sum == a[n] + b[n] + carry
         IN  SumBytes(SubSeq(a, 1, n - 1), SubSeq(b, 1, n - 1), sum \div 256) \o <<sum % 256>>

\* The least of the widths 1, 2, 4, 8 the width n is enough for.
LeastWidth(Enough(_)) == CHOOSE n \in {1, 2, 4, 8} : Enough(n) /\ \A m \in {1, 2, 4} : Enough(m) => n <= m

\* C17: MessagePack packs an integer in the smallest width.  n in 0..127 is
\* the one byte n and n in -32..-1 the one byte 0xE0 | (n & 0x1F).  A larger
\* n is 0xCC, 0xCD, 0xCE or 0xCF and n in 1, 2, 4 or 8 big-endian bytes,
\* the fewest that hold it (edges 2^8, 2^16, 2^32).  A smaller n is 0xD0,
\* 0xD1, 0xD2 or 0xD3 and 1, 2, 4 or 8 bytes, the fewest whose signed range
\* holds it (edges -2^7, -2^15, -2^31, -2^63), that are its two's
\* complement: added to |n| they give 0 in that many bytes.
C17_IntegerSmallestWidth ==
    (pc = "returned" /\ probe.op = "marshall_integer") =>
        LET mag == probe.value.mag
            out == probe.result.data
            w == IF probe.value.neg
                 THEN LeastWidth(LAMBDA n : Fits(mag, n) /\ LeqBytes(Low(mag, n), HalfRange(n)))
                 ELSE LeastWidth(LAMBDA n : Fits(mag, n))
            marker == IF w = 1 THEN 0 ELSE IF w = 2 THEN 1 ELSE IF w = 4 THEN 2 ELSE 3
        IN  /\ probe.result.ok
            /\ IF ~probe.value.neg /\ Fits(mag, 1) /\ mag[8] < 128
               THEN out = <<mag[8]>>
               ELSE IF probe.value.neg /\ Fits(mag, 1) /\ mag[8] <= 32
               THEN out = <<224 + ((32 - mag[8]) % 32)>>
               ELSE IF ~probe.value.neg
               THEN /\ Len(out) = 1 + w
                    /\ out[1] = 204 + marker
                    /\ Zeros(8 - w) \o Tail(out) = mag
               ELSE /\ Len(out) = 1 + w
                    /\ out[1] = 208 + marker
                    /\ SumBytes(Tail(out), Low(mag, w), 0) = Zeros(w)

\* 2^32 has been packed as 0xCF and eight bytes, and -2^15 as 0xD1 0x80 0x00
\* can be (the state holds the first).
C17_Witness ==
    /\ pc = "returned"
    /\ probe.op = "marshall_integer"
    /\ probe.value = VLong(FALSE, <<0, 0, 0, 1, 0, 0, 0, 0>>)
    /\ probe.result.ok
    /\ probe.result.data = <<207, 0, 0, 0, 1, 0, 0, 0, 0>>

\* The value is of the supported domain: no object of another type in it.
RECURSIVE Supported(_)
Supported(v) ==
    CASE v.k = "object" -> FALSE
      [] v.k \in {"list", "tuple", "set"} -> \A i \in 1..Len(v.items) : Supported(v.items[i])
      [] v.k = "dict" -> \A i \in 1..Len(v.pairs) : Supported(v.pairs[i][2])
      [] OTHER -> TRUE

\* The single form of a value: a list for a list, a tuple or a set, bytes
\* for a bytearray, and so for every value inside it.
RECURSIVE SingleForm(_)
SingleForm(v) ==
    CASE v.k \in {"list", "tuple", "set"} ->
            [k |-> "list", items |-> [i \in 1..Len(v.items) |-> SingleForm(v.items[i])]]
      [] v.k = "dict" ->
            [k |-> "dict",
             pairs |-> [i \in 1..Len(v.pairs) |-> <<v.pairs[i][1], SingleForm(v.pairs[i][2])>>]]
      [] v.k = "bytearray" -> [k |-> "bytes", data |-> v.data]
      [] OTHER -> v

\* C18: for every value of the supported domain, nested up to MaxDepth,
\* MessagePack marshalling succeeds and unmarshalling its bytes gives the
\* normalized value: lists, tuples and sets come back as lists, bytearrays
\* as bytes, everything else as it was.
C18_MessagePackRoundTrip ==
    (pc = "returned" /\ probe.op = "round_trip" /\ Supported(probe.value)) =>
        /\ probe.marshalled.ok
        /\ probe.unmarshalled.ok
        /\ probe.unmarshalled.value = SingleForm(probe.value)

\* C19: normalize, JSON marshalling and MessagePack marshalling of a value
\* that is, or holds at any depth in a sequence, set or mapping value, an
\* object of no supported type fail with a TypeError and give no result.
C19_UnsupportedValueIsTypeError ==
    (pc = "returned" /\ probe.op \in {"normalize", "json_marshall", "round_trip"}
        /\ ~Supported(probe.value)) =>
        LET outcome == IF probe.op = "round_trip" THEN probe.marshalled ELSE probe.result
        IN  ~outcome.ok /\ outcome.exc = "TypeError"

\* The class of the transcoder registered for the type and subtype of a
\* Content-Type header; "None" when there is none.
RegisteredFor(ctype, bld) == RegistryGet(bld, Mime(ctype.mime.type, ctype.mime.subtype)).cls

\* The body is a document of the transcoder's format.
Decodable(cls, data) ==
    CASE cls = "JSON" -> \E v \in JsonDocuments : JsonDumps(v) = Utf8Decode(data)
      [] cls = "MessagePack" -> MsgpackUnpack(data).ok
      [] OTHER -> TRUE

\* C13: decoding the request body gives no value when the request has no
\* body bytes or no Content-Type header; gives a value, decoded by the
\* transcoder registered for the Content-Type's type/subtype, when there is
\* one and the body is a document of its format; and raises a ValueError
\* naming the content type when the Content-Type cannot be parsed or is not
\* registered.
C13_BodyDecoding ==
    (pc = "returned" /\ probe.op = "get_body_arguments") =>
        LET hasBody == probe.body.present /\ probe.body.data # <<>>
            cls == RegisteredFor(probe.ctype, build)
        IN  /\ (~hasBody \/ ~probe.ctype.present) => (probe.result.ok /\ probe.result.none)
            /\ (hasBody /\ probe.ctype.present /\ probe.ctype.parsed /\ cls # "None"
                  /\ Decodable(cls, probe.body.data)) =>
                  (probe.result.ok /\ ~probe.result.none /\ probe.result.by = cls)
            /\ (hasBody /\ probe.ctype.present /\ (~probe.ctype.parsed \/ cls = "None")) =>
                  (~probe.result.ok /\ probe.result.exc = "ValueError" /\ probe.result.named)

\* C14: in a request whose Accept header is application/json the response
\* transcoder is the JSON transcoder, and write(mapping) appends the
\* compact JSON of the mapping to the response body and sets the header
\* Content-Type to application/json; charset="UTF-8".
C14_JsonWriteOfMapping ==
    (/\ hist.last.op = "write"
     /\ hist.last.chunk.t = "dict"
     /\ request.accept = AcceptOf(<<Range("application", "json", 10)>>)) =>
        /\ NegotiatedTranscoder.cls = "JSON"
        /\ hist.last.exc = NoExc
        /\ hist.last.after.body =
              hist.last.before.body \o Utf8Encode(JsonDumps(ChunkValue(hist.last.chunk)))
        /\ hist.last.after.headers["Content-Type"] =
              HMime(MimeCharset("application", "json", "charset=\"UTF-8\""))

\* The text a text transcoder marshalls a value to, for Text and JSON.
MarshalledText(cls, v) == IF cls = "Text" THEN v.text ELSE JsonDumps(v)

\* C15: to_bytes(value) of a Text, JSON, FormURLEncoded or YAML transcoder
\* returns the transcoder's MIME type with the parameter charset="UTF-8"
\* and the marshalled text encoded as UTF-8, and from_bytes of those bytes
\* returns the value.
C15_TextFamilyToBytes ==
    (pc = "returned" /\ probe.op = "text_transcode") =>
        /\ probe.to.ok
        /\ probe.to.ctype = MimeCharset(probe.tc.mime_type.type, probe.tc.mime_type.subtype,
                                        "charset=\"UTF-8\"")
        /\ probe.tc.cls \in {"Text", "JSON"} =>
              probe.to.data = Utf8Encode(MarshalledText(probe.tc.cls, probe.value))
        /\ probe.from.ok
        /\ probe.from.value = probe.value

\* C16: Binary().to_bytes(b) returns ('application/octet-stream', b) and
\* Binary().from_bytes(b) returns b, for every byte string b.
C16_BinaryPassthrough ==
    (pc = "returned" /\ probe.op = "binary_transcode") =>
        /\ probe.to.ok
        /\ probe.to.ctype = Mime("application", "octet-stream")
        /\ probe.to.data = probe.data
        /\ probe.from.ok
        /\ probe.from.value = VBytes(probe.data)

\* The class of transcoder a content type of the default registry is for.
ExpectedClass(m) ==
    CASE m = Mime("text", "html") -> "Text"
      [] m = Mime("text", "plain") -> "Text"
      [] m = Mime("application", "octet-stream") -> "Binary"
      [] m = Mime("application", "x-www-form-urlencoded") -> "FormURLEncoded"
      [] m = Mime("application", "json") -> "JSON"
      [] m = Mime("application", "msgpack") -> "MessagePack"
      [] m = Mime("text", "x-yaml") -> "YAML"
      [] OTHER -> "None"

\* C20: the default registry lists text/html, text/plain,
\* application/octet-stream, application/x-www-form-urlencoded and
\* application/json in this order, then application/msgpack when umsgpack
\* is available and text/x-yaml when yaml is; the map has an entry for
\* every listed type and no other, each of the class of its type.
C20_DefaultRegistry ==
    (pc = "returned" /\ probe.op = "default") =>
        /\ probe.list =
              <<Mime("text", "html"), Mime("text", "plain"), Mime("application", "octet-stream"),
                Mime("application", "x-www-form-urlencoded"), Mime("application", "json")>>
              \o (IF build.umsgpack THEN <<Mime("application", "msgpack")>> ELSE <<>>)
              \o (IF build.yaml THEN <<Mime("text", "x-yaml")>> ELSE <<>>)
        /\ DOMAIN probe.map = {probe.list[i] : i \in 1..Len(probe.list)}
        /\ \A m \in DOMAIN probe.map : probe.map[m].cls = ExpectedClass(m)

\* The registry of a deployment with umsgpack and without yaml has been
\* built: six types, the last application/msgpack with a MessagePack
\* transcoder.
C20_Witness ==
    /\ pc = "returned"
    /\ probe.op = "default"
    /\ build.umsgpack
    /\ ~build.yaml
    /\ Len(probe.list) = 6
    /\ probe.list[6] = Mime("application", "msgpack")
    /\ probe.map[Mime("application", "msgpack")].cls = "MessagePack"


\* C21: after add_transcoder(t, m) the registry contains m: m is among the
\* content types negotiation and body decoding select from, the lookup of
\* m yields t, and every type registered before still yields the
\* transcoder it yielded before.
C21_AddTranscoderRegisters ==
    (pc = "returned" /\ probe.op = "add_transcoder") =>
        LET after == probe.result.transcoders
            m == probe.result.key
        IN  /\ probe.result.ok
            /\ \E i \in 1..Len(after.list) : after.list[i] = m
            /\ m \in DOMAIN after.map
            /\ after.map[m] = probe.transcoder
            /\ \A k \in DOMAIN probe.before.map \ {m} :
                  k \in DOMAIN after.map /\ after.map[k] = probe.before.map[k]


\* The keys of a mapping.
KeysOf(v) == {v.pairs[i][1] : i \in 1..Len(v.pairs)}

\* The value a mapping has under a key.
ValueAt(v, key) == v.pairs[CHOOSE i \in 1..Len(v.pairs) : v.pairs[i][1] = key][2]

\* C22: the payload write_error passes to write() for a negotiated type
\* other than HTML has exactly the keys status_code, exception, phrase,
\* description and traceback; the traceback is the formatted stack when
\* serve_traceback is set and exception info was given, and empty
\* otherwise.
C22_ErrorPayloadShape ==
    (pc = "returned" /\ probe.op = "write_error" /\ probe.payload # VNone) =>
        /\ KeysOf(probe.payload) =
              {Txt_status_code, Txt_exception, Txt_phrase, Txt_description, Txt_traceback}
        /\ (probe.exc_info /\ settings.serve_traceback) =>
              ValueAt(probe.payload, Txt_traceback) # VList(<<>>)
        /\ ~(probe.exc_info /\ settings.serve_traceback) =>
              ValueAt(probe.payload, Txt_traceback) = VList(<<>>)


\* C23: a GET request routed to RedirectHandler with the route kwargs
\* url = u (permanent not given, so false) ends with the response sent,
\* its status 302 and its Location header u.
C23_RedirectHandlerRedirects ==
    (LifecycleEnded /\ route.matched /\ route.handler = "RedirectHandler"
        /\ request.method = "GET") =>
        /\ pc = "done"
        /\ response.status_code = 302
        /\ "Location" \in DOMAIN response.headers
        /\ response.headers["Location"] = HStr(route.init_kwargs)
        /\ \E i \in HeadsWritten : transport.written[i].status = 302


C25_ConnectionClosedNotified ==
    (LifecycleEnded /\ transport.lost /\ handler.cls # "") =>
        handler.on_connection_closed >= 1


\* C26: within one request a later call of _get_response_content_type, and
\* likewise of _get_response_transcoder, answers what the first call of
\* that method answered, also when the Accept header of the request was
\* changed in between.
C26_NegotiationMemoized ==
    probe.op = "memo" =>
        \A i, j \in 1..Len(probe.calls) :
            (i < j /\ probe.calls[i].method = probe.calls[j].method) =>
                probe.calls[j].val = probe.calls[i].val


\* The addresses ipaddress.ip_address accepts among the texts sent: '::1'.
IpAddresses == {<<58, 58, 49>>}

\* The last of the comma-separated values, stripped of blanks.
RECURSIVE LastValue(_)
LastValue(b) ==
    IF \E i \in 1..Len(b) : b[i] \in {44, 32}
    THEN LastValue(SubSeq(b, 1 + (CHOOSE i \in 1..Len(b) : b[i] \in {44, 32}), Len(b)))
    ELSE b

\* C27: on_header of an X-Forwarded-For or X-Real-Ip header raises nothing
\* and stores the header in request.headers; the remote IP becomes the
\* last comma-separated value when that is an IP address and stays what it
\* was when it is not.
C27_ForwardedHeader ==
    hist.header.key # "" =>
        /\ hist.escaped.where # "on_header"
        /\ hist.header.key \in DOMAIN request.headers
        /\ request.remote_ip = IF LastValue(hist.header.value) \in IpAddresses
                               THEN LastValue(hist.header.value) ELSE PeerIp


\* C28: write_headers raises and writes nothing to the transport when a
\* header value has a control character 0x00-0x1F at any position, so no
\* header line written holds one.
C28_ControlCharactersRejected ==
    /\ (pc = "returned" /\ probe.op = "write_headers"
            /\ \E i \in 1..Len(probe.value) : probe.value[i] \in 0..31) =>
          /\ probe.exc # NoExc
          /\ transport.written = <<>>
    /\ \A w \in 1..Len(transport.written) :
          transport.written[w].kind = "head" =>
              \A key \in DOMAIN transport.written[w].headers :
                  \A i \in 1..Len(transport.written[w].headers[key].text) :
                      transport.written[w].headers[key].text[i] \notin 0..31


\* The phases of execute in their order, and the place of a phase in it.
ExecutePhases ==
    <<"initialize", "prepare", "verb", "error", "send_response", "log", "on_finished">>
PhaseRank(name) == CHOOSE i \in 1..Len(ExecutePhases) : ExecutePhases[i] = name

\* The phases execute has entered, in the order it entered them.
PhasesEntered ==
    SelectSeq(hist.phases, LAMBDA name : \E i \in 1..Len(ExecutePhases) : ExecutePhases[i] = name)

\* C29: execute enters its phases in the order initialize, prepare, verb
\* method, error handling, sending the response, access logging,
\* on_finished, and none twice; it starts with initialize, enters the verb
\* method and the error handling only after prepare, the error handling
\* only with an exception raised in prepare or the verb method, sending
\* only after prepare, and logging and on_finished only after sending;
\* sending that returns leaves the request finished, and on_finished runs
\* with the request finished.
C29_PhaseOrder ==
    LET ph == PhasesEntered
        Entered(name) == \E i \in 1..Len(ph) : ph[i] = name
    IN  /\ \A i, j \in 1..Len(ph) : i < j => PhaseRank(ph[i]) < PhaseRank(ph[j])
        /\ ph # <<>> => ph[1] = "initialize"
        /\ Len(ph) >= 2 => ph[2] = "prepare"
        /\ Entered("error") => handler.exc # NoExc
        /\ (Entered("log") \/ Entered("on_finished")) => Entered("send_response")
        /\ (Entered("send_response") /\ pc # "escaped") => Finished(request)
        /\ Entered("on_finished") => Finished(request)
        /\ pc \in {"on_finished", "done"} => Entered("on_finished")

\* execute has returned after every phase: the verb method raised, the
\* error was handled, the response sent, the request logged.
C29_Witness ==
    /\ pc = "done"
    /\ PhasesEntered = ExecutePhases
    /\ Finished(request)


\* initialize has raised: the lifecycle entered initialize, did not go on
\* to prepare, and holds the exception.
InitializeRaised ==
    /\ PhasesEntered # <<>>
    /\ \A i \in 1..Len(PhasesEntered) : PhasesEntered[i] # "prepare"
    /\ handler.exc # NoExc

\* C30: an exception raised in initialize is handled like one raised in the
\* verb method: it is classified by the except clause of execute as Finish,
\* HTTPError or other error, and the lifecycle goes on to send the
\* response and to on_finished, leaving the request finished.
C30_InitializeFailureHandled ==
    (LifecycleEnded /\ InitializeRaised) =>
        /\ hist.handled.branch \in {"finish", "http_error", "other"}
        /\ \E i \in 1..Len(PhasesEntered) : PhasesEntered[i] = "send_response"
        /\ \E i \in 1..Len(PhasesEntered) : PhasesEntered[i] = "on_finished"
        /\ Finished(request)

(***************************************************************************)
(* Properties of the stages.                                               *)
(***************************************************************************)
\* C31: when the last call prepare made is the handler's finish, with or
\* without a payload, and the call returned, execute does not go on from
\* prepare to the verb method.
C31_FinishInPrepareSkipsVerb ==
    [][(pc = "prepare" /\ hist.last.op = "finish" /\ hist.last.exc = NoExc)
           => pc' # "verb"]_vars

\* The number of times the status line and headers were written to a
\* transport.
HeadCount(tr) == Cardinality({i \in 1..Len(tr.written) : tr.written[i].kind = "head"})

\* The step is a call of the handler API or of the response, by user code.
IsCall(op) == handler'.calls = handler.calls + 1 /\ hist'.last.op = op

\* C32: the status line and headers of a response are written to the
\* transport at most once, whatever sequence of flush, write_headers and
\* send_response is called, and they are on the transport exactly when
\* headers_written is set; a write_headers after they were written raises
\* RuntimeError and writes nothing; a flush writes them when they were not
\* written and does not write them again when they were.
C32_HeadersWrittenOnce ==
    /\ [](/\ HeadCount(transport) <= 1
          /\ response.headers_written <=> HeadCount(transport) = 1)
    /\ [][/\ (IsCall("write_headers") /\ response.headers_written) =>
                 /\ hist'.last.exc = Exc("RuntimeError")
                 /\ transport' = transport
          /\ (IsCall("flush") /\ response.headers_written) =>
                 HeadCount(transport') = HeadCount(transport)
          /\ (IsCall("flush") /\ ~response.headers_written /\ hist'.last.exc = NoExc) =>
                 HeadCount(transport') = 1
          /\ (pc = "send_response" /\ response.headers_written) =>
                 (pc' = "escaped" /\ transport' = transport)]_vars

\* A second write_headers has raised: the headers were written, by a flush
\* or a write_headers, and user code called write_headers again.
C32_Witness ==
    /\ hist.last.op = "write_headers"
    /\ hist.last.exc = Exc("RuntimeError")
    /\ hist.last.before.headers_written
    /\ HeadCount(transport) = 1

\* The body bytes on a transport, in the order written.
WireBody(tr) ==
    Flatten([i \in 1..Len(tr.written) |->
                IF tr.written[i].kind = "body" THEN tr.written[i].data ELSE <<>>])

\* The bytes the last call appended to the buffered body.
LastAppended ==
    SubSeq(hist.last.after.body, Len(hist.last.before.body) + 1, Len(hist.last.after.body))

\* C33: streaming.  When user code flushed in prepare or the verb method
\* and the last call it made then wrote a further chunk, the lifecycle
\* completes: execute returns, the request is finished, the connection
\* closed, and the chunk is the end of the body on the transport.
C33_StreamingFlushCompletes ==
    (/\ LifecycleEnded
     /\ hist.last.op = "write" /\ hist.last.exc = NoExc
     /\ ~hist.last.finished_before
     /\ hist.last.before.headers_written
     /\ BodiesWritten # {})
    => /\ pc = "done"
       /\ Finished(request)
       /\ transport.closed >= 1
       /\ LET wire == WireBody(transport) IN
          /\ Len(wire) >= Len(LastAppended)
          /\ SubSeq(wire, Len(wire) - Len(LastAppended) + 1, Len(wire)) = LastAppended

(***************************************************************************)
(* Properties of the connection.                                           *)
(***************************************************************************)
\* How often execute() entered the phase, or the parser reported the event.
PhaseCount(name) == Cardinality({i \in 1..Len(hist.phases) : hist.phases[i] = name})

C38_BodyIsConcatenation ==
    (request.has_response /\ probe.op = "body") =>
        request.body = BodyOf(Flatten(probe.delivered))

\* C35: whatever the handler of another request calls while this one
\* awaits, each of the memoized methods computes its value at most once
\* for the request: of the calls one handler makes of a method, at most
\* one is not answered from the cache.
C35_ComputedOncePerRequest ==
    probe.op = "memo" =>
        \A i, j \in 1..Len(probe.calls) :
            (i < j /\ probe.calls[i].method = probe.calls[j].method) =>
                ~probe.calls[j].computed

\* What the method computes for a request with the Accept header.
OwnValue(method, accept) ==
    LET ctype == ResponseContentType(accept, settings, build) IN
    IF method = "_get_response_content_type" THEN ctype
    ELSE IF ctype # Mime("", "") THEN RegistryGet(build, ctype) ELSE NoTranscoder

\* C36: every answer a handler gets from a memoized negotiation method is
\* the value of its own request, computed from the Accept header the
\* request has or had at one of the handler's calls so far, whatever the
\* handler of another request called in between; and a call made by the
\* handler of another request leaves this request and its response as
\* they are.
C36_ResultsPrivateToRequest ==
    /\ [](probe.op = "memo" =>
            \A i \in 1..Len(probe.calls) :
               \E j \in 1..i :
                  probe.calls[i].val = OwnValue(probe.calls[i].method, probe.calls[j].accept))
    /\ [][(probe.op = "memo" /\ probe'.others # probe.others) =>
              (request' = request /\ response' = response)]_vars

\* The handler of another request, with another Accept header, called the
\* method between two calls of this handler, and the second call computed
\* this request's value again.
C36_Witness ==
    /\ probe.op = "memo"
    /\ probe.others = 1
    /\ Len(probe.calls) = 2
    /\ probe.calls[2].method = probe.calls[1].method
    /\ probe.calls[2].computed
    /\ cache.ctype.key = "handler"
    /\ probe.calls[2].val = OwnValue(probe.calls[2].method, request.accept)

\* The headers written with the status line.
HeadOnWire == transport.written[CHOOSE i \in HeadsWritten : TRUE].headers

\* The body written right after the status line and headers.
BodyWithHead == transport.written[(CHOOSE i \in HeadsWritten : TRUE) + 1].data

\* The spellings of Content-Length under which user code set the header.
LengthsSet ==
    {key \in DOMAIN response.headers :
        /\ NormalizeHeaderKey(key) = "Content-Length"
        /\ response.headers[key] = HInt(AnnouncedLength)}

\* C37: when the send_response of execute has just sent the response, the
\* headers on the wire hold Content-Length; it is the length of the body
\* written with them when user code set no Content-Length, and the length
\* user code set, under either spelling of the name, when it set one.
C37_ContentLengthOnWire ==
    pc = "log" =>
        /\ "Content-Length" \in DOMAIN HeadOnWire
        /\ LengthsSet = {} => HeadOnWire["Content-Length"].n = Len(BodyWithHead)
        /\ LengthsSet # {} => HeadOnWire["Content-Length"].n = AnnouncedLength

\* The transcoders registered with the application.
RegisteredTranscoders ==
    {DefaultRows(build)[i].tc : i \in 1..Len(DefaultRows(build))}

\* C39: with the default settings, whatever Accept header the request has
\* (none, '*/*', one that matches a registered type, one that matches
\* none), _get_response_transcoder answers a registered transcoder, never
\* None.
C39_TranscoderNeverNull ==
    (probe.op = "memo" /\ settings.default_content_type = DefaultContentTypeSetting) =>
        \A i \in 1..Len(probe.calls) :
            probe.calls[i].method = "_get_response_transcoder" =>
                /\ probe.calls[i].val # NoTranscoder
                /\ probe.calls[i].val \in RegisteredTranscoders

(***************************************************************************)
(* Properties of the body buffer.                                          *)
(***************************************************************************)
IsPrefix(a, b) == Len(a) <= Len(b) /\ SubSeq(b, 1, Len(a)) = a

\* C40: of the bytes passed to write, the transport has at any time
\* received a prefix, each byte once and in the order written, and after
\* the final send_response it has received them all.
C40_BodyBytesWrittenOnce ==
    probe.op = "buffer" =>
        /\ IsPrefix(WireBody(transport), probe.passed)
        /\ probe.sent => WireBody(transport) = probe.passed

====
